---- MODULE Spec2Model ----
(***************************************************************************)
(* The device side of Calibre's wireless protocol as implemented by        *)
(* uc/uc.go (calConn.Start and its handlers) together with the in-memory   *)
(* book catalog UncagedDB.                                                 *)
(*                                                                         *)
(* Errors are modelled as the chain of messages that fmt.Errorf's %w       *)
(* builds: the outermost message first, the root cause last.  The Go test  *)
(* err == io.EOF is equality with the one-element chain EOF, errors.Is is  *)
(* membership in the chain.                                                *)
(***************************************************************************)
EXTENDS Integers, Sequences, FiniteSets, TLC

\* ------------------------------------------------------------------ bounds
\* frames the read routine may take off the transport in one session
MaxFrames == 2
\* catalog entries a session may hold (sendBook is not offered beyond it)
MaxBooks == 2
\* largest count announced by sendBooklists / noop
MaxCount == 2

\* ------------------------------------------------------- program constants
noop == 12
ok == 0
bookDone == 11
calibreBusy == 18
setLibraryInfo == 19
deleteBook == 13
displayMessage == 17
freeSpace == 5
getBookFileSegment == 14
getBookMetadata == 15
getBookCount == 6
getDeviceInformation == 3
getInitializationInfo == 9
sendBooklists == 7
sendBook == 8
sendBookMetadata == 16
setCalibreDeviceInfo == 1
setCalibreDeviceName == 2
totalSpace == 4

passwordError == 1
updateNeeded == 2
showToast == 3

\* c.tcpDeadline.stdDuration, in seconds
stdDuration == 60
\* the alternate duration armed after a book list was streamed, in seconds
listAltDuration == 300

\* a reply frame with another opcode
okStr_busy == "6[1,{}]"
okStr == "6[0,{}]"

\* ------------------------------------------------------------------ errors
NoErr == <<>>
EOF == <<"EOF">>
NoPassword == <<"no password found">>
CalibreNotFound == <<"calibre server not found">>
CalErrorText == {"no password found", "calibre server not found"}

\* fmt.Errorf("msg: %w", e)
Wrap(msg, e) == <<msg>> \o e
\* fmt.Errorf("msg") without a wrapped cause
Errorf(msg) == <<msg>>
\* errors.Is(e, target) for a target that is a one-element chain
Is(e, target) == \E i \in DOMAIN e : e[i] = target[1]

\* ------------------------------------------------------------ input domains
Lpaths == {"a.epub", "b.epub"}
UUIDs == {"U1", "U2"}
Passwords == {"", "uncaged"}
Challenges == {"", "abc"}
WriteOutcomes == {"ok", "timeout", "eof", "fail"}

Range(q) == {q[i] : i \in DOMAIN q}

\* ----------------------------------------------------------------- catalog
\* BookCountDetails; LastModified is "T" when the time is set, "" for the
\* zero time.Time
BookCountDetails(k, u, e, l, t) ==
  [PriKey |-> k, UUID |-> u, Extension |-> e, Lpath |-> l, LastModified |-> t]

\* the extension a client derives from an lpath (uncaged-cli), all lpaths of
\* the model end in .epub
ClientExt(l) == ".epub"

EmptyDB == [nextKey |-> 0, booklist |-> <<>>]

\* a key source that hands out the counter without advancing it
newPriKey_reuse(db) == [key |-> db.nextKey, db |-> db]

\* newPriKey: returns the key and the database with the counter advanced
newPriKey(db) == [key |-> db.nextKey, db |-> [db EXCEPT !.nextKey = @ + 1]]

\* find(Lpath, l): index of the first entry with that lpath, 0 for "no match"
findLpath(db, l) ==
  IF \E i \in DOMAIN db.booklist : db.booklist[i].Lpath = l
  THEN CHOOSE i \in DOMAIN db.booklist :
         /\ db.booklist[i].Lpath = l
         /\ \A j \in DOMAIN db.booklist : db.booklist[j].Lpath = l => i <= j
  ELSE 0

\* find(PriKey, k): index of the first entry with that key, 0 for "no match"
findPriKey(db, k) ==
  IF \E i \in DOMAIN db.booklist : db.booklist[i].PriKey = k
  THEN CHOOSE i \in DOMAIN db.booklist :
         /\ db.booklist[i].PriKey = k
         /\ \A j \in DOMAIN db.booklist : db.booklist[j].PriKey = k => i <= j
  ELSE 0

length(db) == Len(db.booklist)

\* an insertion that leaves the catalog as it is
addEntry_noop(db, md) == db

\* addEntry: a new record with a fresh key, the uuid and lpath of the
\* metadata, and the zero values of Extension and LastModified, is appended
addEntry(db, md) ==
  LET r == newPriKey(db)
  IN [r.db EXCEPT !.booklist =
        Append(@, BookCountDetails(r.key, md.UUID, "", md.Lpath, ""))]

RemoveAt(q, i) == SubSeq(q, 1, i - 1) \o SubSeq(q, i + 1, Len(q))

\* a removal that leaves the catalog as it is
removeEntry_keep(db, l) == db

\* removeEntry(Lpath, l): drops the first entry with that lpath; a failed
\* search leaves the list alone (the error is returned to the caller)
removeEntry(db, l) ==
  LET i == findLpath(db, l)
  IN IF i = 0 THEN db ELSE [db EXCEPT !.booklist = RemoveAt(@, i)]

RECURSIVE initDBFrom(_, _, _)
initDBFrom(db, bl, i) ==
  IF i > Len(bl) THEN db
  ELSE LET r == newPriKey(db)
       IN initDBFrom([r.db EXCEPT !.booklist = Append(@, [bl[i] EXCEPT !.PriKey = r.key])],
                     bl, i + 1)

\* initDB: takes the client's list and gives every entry a new key
initDB(db, bl) == initDBFrom([db EXCEPT !.booklist = <<>>], bl, 1)

\* the lists GetDeviceBookList may return: distinct lpaths, no keys yet
DeviceBookLists ==
  LET one(l) == BookCountDetails(0, "U1", ClientExt(l), l, "T")
  IN {<<>>}
     \cup {<<one(l)>> : l \in Lpaths}
     \cup {<<one(l1), one(l2)>> : l1 \in Lpaths, l2 \in Lpaths}

InitBookLists ==
  {bl \in DeviceBookLists :
     \A i, j \in DOMAIN bl : i # j => bl[i].Lpath # bl[j].Lpath}

\* ------------------------------------------------------------------ frames
\* A decoded request frame: the opcode and the fields of the payload the
\* handlers read.  pok is FALSE when the payload does not unmarshal into
\* the handler's struct.  hasCount/empty describe the payload object of a
\* noop frame.
NoFrame ==
  [op |-> -1, pok |-> TRUE, messageKind |-> 0, passwordChallenge |-> "",
   willUseCachedMetadata |-> FALSE, count |-> 0, empty |-> TRUE, hasCount |-> FALSE,
   lpath |-> "", uuid |-> "", thisBook |-> 0, totalBooks |-> 1, length |-> 0,
   wantsSendOkToSendbook |-> FALSE, canSupportLpathChanges |-> FALSE,
   lpaths |-> <<>>, canStream |-> FALSE, canStreamBinary |-> FALSE, priKey |-> 0]

Frame(o) == [NoFrame EXCEPT !.op = o]
BadFrame(o) == [NoFrame EXCEPT !.op = o, !.pok = FALSE]

\* the opcodes Start's switch has a case for
HandledOps ==
  {getInitializationInfo, displayMessage, getDeviceInformation, setCalibreDeviceInfo,
   freeSpace, getBookCount, sendBooklists, setLibraryInfo, sendBook, deleteBook,
   getBookFileSegment, noop}

\* the opcodes of the protocol's list
ListedOps ==
  HandledOps \cup {ok, bookDone, calibreBusy, getBookMetadata, sendBookMetadata,
                   setCalibreDeviceName, totalSpace}

\* opcodes a server may send that Start has no case for: the listed ones
\* without a handler and two numbers outside the list
UnhandledOps == (ListedOps \ HandledOps) \cup {10, 20}

LpathSeqs ==
  {<<>>} \cup {<<l>> : l \in Lpaths} \cup {<<l1, l2>> : l1 \in Lpaths, l2 \in Lpaths}

BookPositions == {<<0, 1>>, <<0, 2>>, <<1, 2>>}
BookLengths == {5}
\* the lengths GetBook may report for a file
FileLengths == {5, 204800}

Frames ==
  {BadFrame(o) : o \in HandledOps \ {getDeviceInformation, freeSpace}}
  \cup {Frame(o) : o \in UnhandledOps \cup {getDeviceInformation, setCalibreDeviceInfo,
                                            freeSpace, setLibraryInfo}}
  \cup {[Frame(getInitializationInfo) EXCEPT !.passwordChallenge = c] : c \in Challenges}
  \cup {[Frame(displayMessage) EXCEPT !.messageKind = k] :
          k \in {passwordError, updateNeeded, showToast}}
  \cup {[Frame(getBookCount) EXCEPT !.willUseCachedMetadata = b] : b \in BOOLEAN}
  \cup {[Frame(sendBooklists) EXCEPT !.count = n] : n \in 0..MaxCount}
  \cup {[Frame(sendBook) EXCEPT !.lpath = l, !.uuid = u, !.thisBook = p[1],
                                !.totalBooks = p[2], !.length = n,
                                !.wantsSendOkToSendbook = w,
                                !.canSupportLpathChanges = c] :
          l \in Lpaths, u \in UUIDs, p \in BookPositions, n \in BookLengths,
          w \in BOOLEAN, c \in BOOLEAN}
  \cup {[Frame(deleteBook) EXCEPT !.lpaths = q] : q \in LpathSeqs}
  \cup {[Frame(getBookFileSegment) EXCEPT !.lpath = l, !.canStream = a,
                                          !.canStreamBinary = b] :
          l \in Lpaths, a \in BOOLEAN, b \in BOOLEAN}
  \cup {Frame(noop)}
  \cup {[Frame(noop) EXCEPT !.empty = FALSE]}
  \cup {[Frame(noop) EXCEPT !.empty = FALSE, !.hasCount = TRUE, !.count = n] :
          n \in 0..MaxCount}

\* what one readDecodeCalibrePayload inside a handler may deliver: a
\* sendBookMetadata frame, a noop frame carrying a priKey, a frame whose
\* payload does not unmarshal, or a failed read
MetadataReads ==
  {[k |-> "frame", f |-> [Frame(sendBookMetadata) EXCEPT !.lpath = l]] : l \in Lpaths}
PriKeyReads == {[k |-> "frame", f |-> [Frame(noop) EXCEPT !.priKey = n]] : n \in 0..MaxBooks}
BrokenReads ==
  {[k |-> "frame", f |-> BadFrame(sendBookMetadata)], [k |-> "frame", f |-> BadFrame(noop)]}
  \cup {[k |-> e, f |-> NoFrame] : e \in {"eof", "timeout", "decode"}}

\* the reads of a handler that expects n frames of the set good: n good
\* ones, or good ones up to a read that is not (the handler stops there)
InnerReadSeqs(n, good, bad) ==
  [1..n -> good]
  \cup UNION {{[i \in 1..n |-> IF i <= k THEN g[i] ELSE b] :
                 g \in [1..k -> good], b \in bad} : k \in 0..(n - 1)}

\* ------------------------------------------------------------------- state
VARIABLES
  ucdb,            \* c.ucdb: [nextKey, booklist]
  serverPassword,  \* c.serverPassword
  calibreInfo,     \* c.calibreInfo.PasswordChallenge
  tcpConn,         \* c.tcpConn: index into conns, 0 for nil
  conns,           \* every connection Connect() returned: "open" or "closed"
  deferConn,       \* the connection Start's deferred Close() is bound to
  altDuration,     \* c.tcpDeadline.altDuration, seconds
  trace,           \* what the device did since the last frame arrived, in order
  pc,              \* Start: "start", "select", "handler", "done"
  cur,             \* the frame being handled (pc = "handler") or last handled
  reader,          \* the read routine: "none", "spawned", "reading", "ready"
  pl,              \* the calPayload the read routine holds: [err, f]
  exitRaised,      \* the client is sending on the exit channel
  retErr,          \* Start's return value once pc = "done"
  nread,           \* frames the read routine has taken off the transport
  call,            \* a library function applied on its own: its name and input
  result,          \* what that function has returned so far
  round            \* one discovery round, step by step: caller, reader and socket

\* the library functions applied outside a session
lib == <<call, result, round>>

vars == <<ucdb, serverPassword, calibreInfo, tcpConn, conns, deferConn, altDuration,
          trace, pc, cur, reader, pl, exitRaised, retErr, nread, call, result, round>>

\* no function is applied on its own
NoCall == [fn |-> ""]
NoResult == [done |-> TRUE]
\* no discovery round is followed step by step
NoRound == [pc |-> "none"]

\* one thing the device did: a transport operation or a collaborator call
Ev(e, a, r) == [ev |-> e, arg |-> a, res |-> r]

\* the session fields a handler works on, with the handler's bookkeeping:
\* nw counts its transport writes, err is the error it returns
St ==
  [ucdb |-> ucdb, serverPassword |-> serverPassword, calibreInfo |-> calibreInfo,
   tcpConn |-> tcpConn, conns |-> conns, altDuration |-> altDuration, trace |-> trace, nw |-> 0, err |-> NoErr]

Did(s, e, a, r) == [s EXCEPT !.trace = Append(@, Ev(e, a, r))]
Fail(s, e) == [s EXCEPT !.err = e]

\* which write of a handler fails, and how (at = 0: none)
WOs ==
  {[at |-> 0, kind |-> "ok"]}
  \cup {[at |-> i, kind |-> k] : i \in 1..(MaxBooks + 1), k \in WriteOutcomes \ {"ok"}}

\* ---------------------------------------------------------------- transport
\* a refresh that uses the alternate duration and leaves it armed
setTCPDeadline_sticky(s) ==
  IF s.altDuration > 0
  THEN Did(s, "SetDeadline", ToString(s.altDuration), "")
  ELSE Did(s, "SetDeadline", ToString(stdDuration), "")

\* setTCPDeadline: SetDeadline(now + d), d the alternate duration when one
\* is armed (and then it is cleared), else the standard one
setTCPDeadline(s) ==
  IF s.altDuration > 0
  THEN Did([s EXCEPT !.altDuration = 0], "SetDeadline", ToString(s.altDuration), "")
  ELSE Did(s, "SetDeadline", ToString(stdDuration), "")

\* an encoder whose prefix counts the payload without the opcode
buildJSONpayload_payloadlen(data, op) ==
  ToString(Len(data)) \o "[" \o ToString(op) \o "," \o data \o "]"

\* buildJSONpayload: the decimal length of the bracketed body, then the body
buildJSONpayload(data, op) ==
  LET frame == "[" \o ToString(op) \o "," \o data \o "]"
  IN ToString(Len(frame)) \o frame

\* a hash that leaves the stored password out
hashCalPassword_empty(s, challenge) == "sha1(" \o challenge \o ")"

\* hex(sha1(password + challenge)); sha1 is kept symbolic
hashCalPassword(s, challenge) == "sha1(" \o s.serverPassword \o challenge \o ")"

establishTCP(s, connected) ==
  IF connected
  THEN setTCPDeadline(
         Did([s EXCEPT !.conns = Append(@, "open"), !.tcpConn = Len(s.conns) + 1,
                       !.err = NoErr],
             "Connect", ToString(Len(s.conns) + 1), "ok"))
  ELSE Fail(Did([s EXCEPT !.tcpConn = 0], "Connect", "", "error"),
            Wrap("establishTCP", Wrap("Connect: error dialling Calibre", <<"dial">>)))

\* c.tcpConn.Close()
CloseConn(s) ==
  Did([s EXCEPT !.conns = [i \in DOMAIN s.conns |->
                             IF i = s.tcpConn THEN "closed" ELSE s.conns[i]]],
      "Close", ToString(s.tcpConn), "")

writeTCP(s, payload, wo) ==
  LET n == s.nw + 1
      o == IF wo.at = n THEN wo.kind ELSE "ok"
      s1 == Did([s EXCEPT !.nw = n], "Write", payload, o)
  IN CASE o = "timeout" -> Fail(s1, Wrap("writeTCP: connection timed out", <<"i/o timeout">>))
       [] o = "eof" -> Fail(s1, EOF)
       [] o = "fail" -> Fail(s1, Wrap("writeTCP: write to tcp connection failed", <<"neterr">>))
       [] OTHER -> setTCPDeadline(Fail(s1, NoErr))

\* what names the payload of a frame in the record of a read: its lpath,
\* for a noop frame the priKey it decodes to (0 when it carries none)
PayloadName(f) ==
  IF f.op = noop /\ f.pok THEN "priKey:" \o ToString(f.priKey) ELSE f.lpath

\* one read off the transport: what came (the lpath names the payload of
\* a frame) and the opcode, or how the read failed
Read(s, r) ==
  Did(s, "Read", PayloadName(r.f), IF r.k = "frame" THEN ToString(r.f.op) ELSE r.k)

\* a read routine that arms the list duration for the frame it waits for
readDecodeCalibrePayload_arming(s, r) ==
  Fail([Read(s, r) EXCEPT !.altDuration = listAltDuration],
       IF r.k = "frame" THEN NoErr ELSE EOF)

\* readTCP + decodeCalibrePayload on read outcome r; the frame is r.f
readDecodeCalibrePayload(s, r) ==
  CASE r.k = "eof" -> Fail(Did(Read(s, r), "UpdateStatus", "Disconnected", "-1"), EOF)
    [] r.k = "timeout" ->
         Fail(Read(s, r), Wrap("readDecodeCalibrePayload: connection closed",
                      Wrap("readTCP: connection timed out", <<"i/o timeout">>)))
    [] r.k = "closed" ->
         Fail(Read(s, r), Wrap("readDecodeCalibrePayload: connection closed",
                      Wrap("readTCP: ReadBytes failed", <<"use of closed network connection">>)))
    [] r.k = "badsize" ->
         Fail(Read(setTCPDeadline(s), r),
              Wrap("readDecodeCalibrePayload: connection closed",
                   Wrap("readTCP: error decoding payload size", <<"strconv">>)))
    [] r.k = "decode" ->
         Fail(Read(setTCPDeadline(setTCPDeadline(s)), r),
              Wrap("readDecodeCalibrePayload: packet decoding failed",
                   Wrap("decodeCalibrePayload: could not unmarshal payload", <<"json">>)))
    [] OTHER -> Fail(Read(setTCPDeadline(setTCPDeadline(s)), r), NoErr)

\* ----------------------------------------------------------------- handlers
Bool(b) == IF b THEN "true" ELSE "false"
\* how a collaborator call ended
Res(failed) == IF failed THEN "error" ELSE "ok"

CalibreInitJSON(passHash) == "{passwordHash:" \o passHash \o "}"

\* a getInitInfo that hashes whether or not it was challenged
getInitInfo_always(s, f, wo) ==
  IF ~f.pok
  THEN Fail(s, Wrap("getInitInfo: error decoding calibre data", <<"json">>))
  ELSE LET s1 == [s EXCEPT !.calibreInfo = f.passwordChallenge]
       IN writeTCP(s1, buildJSONpayload(
                         CalibreInitJSON(hashCalPassword(s1, s1.calibreInfo)), ok), wo)

\* getInitInfo: the challenge is stored, and the reply carries the empty
\* hash without a challenge, hashCalPassword(challenge) with one
getInitInfo(s, f, wo) ==
  IF ~f.pok
  THEN Fail(s, Wrap("getInitInfo: error decoding calibre data", <<"json">>))
  ELSE LET s1 == [s EXCEPT !.calibreInfo = f.passwordChallenge]
           passHash == IF s1.calibreInfo # ""
                       THEN hashCalPassword(s1, s1.calibreInfo)
                       ELSE ""
       IN writeTCP(s1, buildJSONpayload(CalibreInitJSON(passHash), ok), wo)

\* a handleMessage that reconnects whatever password it was given
handleMessage_reconnect(s, f, wo, pw, pwErr, connected) ==
  IF ~f.pok
  THEN Fail(s, Wrap("handleMessage: error getting message kind from calibre", <<"json">>))
  ELSE IF f.messageKind = passwordError
  THEN LET s1 == Fail(writeTCP(s, okStr, wo), NoErr)
           s2 == CloseConn(s1)
           s3 == Did([s2 EXCEPT !.serverPassword = pw], "GetPassword", pw, Res(pwErr))
       IN IF pwErr
          THEN Fail(s3, Wrap("handleMessage: error retrieving password", <<"client">>))
          ELSE establishTCP(s3, connected)
  ELSE Fail(s, NoErr)

handleMessage(s, f, wo, pw, pwErr, connected) ==
  IF ~f.pok
  THEN Fail(s, Wrap("handleMessage: error getting message kind from calibre", <<"json">>))
  ELSE IF f.messageKind = passwordError
  THEN LET s1 == Fail(writeTCP(s, okStr, wo), NoErr)
           s2 == CloseConn(s1)
           s3 == Did([s2 EXCEPT !.serverPassword = pw], "GetPassword", pw, Res(pwErr))
       IN IF pwErr
          THEN Fail(s3, Wrap("handleMessage: error retrieving password", <<"client">>))
          ELSE IF s3.serverPassword = ""
          THEN Fail(Did(s3, "UpdateStatus", "EmptyPasswordReceived", "-1"), NoPassword)
          ELSE establishTCP(s3, connected)
  ELSE Fail(s, NoErr)

getDeviceInfo(s, wo) ==
  writeTCP(Did(s, "UpdateStatus", "Connected", "-1"),
           buildJSONpayload("{device_version:model,version:391}", ok), wo)

setDeviceInfo(s, f, wo, clientErr) ==
  IF ~f.pok
  THEN Fail(s, Wrap("setDeviceInfo: error decoding data", <<"json">>))
  ELSE writeTCP(Did(s, "SetDeviceInfo", "", Res(clientErr)), okStr, wo)

getFreeSpace(s, wo) ==
  writeTCP(Did(s, "GetFreeSpace", "", "ok"),
           buildJSONpayload("{free_space_on_device:1024}", ok), wo)

setLibraryInfoHandler(s, f, wo, clientErr) ==
  IF ~f.pok
  THEN Fail(s, Wrap("setLibraryInfo: error decoding library info", <<"json">>))
  ELSE LET s1 == Did(s, "SetLibraryInfo", "", Res(clientErr))
       IN IF clientErr
          THEN Fail(s1, Wrap("setLibraryInfo: client error while sending library info",
                             <<"client">>))
          ELSE writeTCP(s1, okStr, wo)

\* a count frame that counts one book too many
BookCountSendJSON_more(n) ==
  "{count:" \o ToString(n + 1) \o ",willStream:true,willScan:true}"

BookCountSendJSON(n) == "{count:" \o ToString(n) \o ",willStream:true,willScan:true}"

BookCountDetailsJSON(b) ==
  "{priKey:" \o ToString(b.PriKey) \o ",uuid:" \o b.UUID \o ",extension:" \o b.Extension
  \o ",lpath:" \o b.Lpath \o ",last_modified:" \o b.LastModified \o "}"

\* the full metadata of one book as the iterator's Get returns it and
\* InitMaps completes it, marshalled
BookMetaJSON(id) == "{lpath:" \o id \o ",user_metadata:{}}"

\* for _, b := range booklist { writeTCP(buildJSONpayload(b, ok)) }
RECURSIVE writeBookCountDetails(_, _, _, _)
writeBookCountDetails(s, bl, i, wo) ==
  IF i > Len(bl) THEN s
  ELSE LET s1 == writeTCP(s, buildJSONpayload(BookCountDetailsJSON(bl[i]), ok), wo)
       IN IF s1.err # NoErr
          THEN Fail(s1, Wrap("getBookCount: error sending bookCountDetail", s1.err))
          ELSE writeBookCountDetails(s1, bl, i + 1, wo)

\* for mdIter.Next() { md, err := mdIter.Get(); md.InitMaps(); writeTCP(md) }
\* items are the books the iterator yields, getFailAt the Get that fails
RECURSIVE sendMetadata(_, _, _, _, _, _)
sendMetadata(s, items, i, getFailAt, wo, who) ==
  IF i > Len(items) THEN s
  ELSE LET s1 == Did(s, "MetadataIter.Get", items[i], Res(getFailAt = i))
       IN IF getFailAt = i
          THEN Fail(s1, Wrap(who \o ": error retrieving book metadata", <<"client">>))
          ELSE LET s2 == writeTCP(s1, buildJSONpayload(BookMetaJSON(items[i]), ok), wo)
               IN IF s2.err # NoErr
                  THEN Fail(s2, Wrap(who \o ": error sending book metadata", s2.err))
                  ELSE sendMetadata(s2, items, i + 1, getFailAt, wo, who)

\* arming the alternate deadline after a list was streamed
armListDeadline(s) ==
  Did(setTCPDeadline([s EXCEPT !.altDuration = listAltDuration]),
      "UpdateStatus", "Waiting", "-1")

getBookCountHandler(s, f, wo, items, getFailAt) ==
  IF ~f.pok
  THEN Fail(s, Wrap("getBookCount: error decoding options", <<"json">>))
  ELSE IF f.willUseCachedMetadata
  THEN LET s1 == writeTCP(s, buildJSONpayload(BookCountSendJSON(length(s.ucdb)), ok), wo)
       IN IF s1.err # NoErr
          THEN Fail(s1, Wrap("getBookCount: error sending count", s1.err))
          ELSE LET s2 == writeBookCountDetails(s1, s1.ucdb.booklist, 1, wo)
               IN IF s2.err # NoErr THEN s2 ELSE armListDeadline(s2)
  ELSE LET s0 == Did(s, "GetMetadataIter", "all", "ok")
           s1 == writeTCP(s0, buildJSONpayload(BookCountSendJSON(Len(items)), ok), wo)
       IN IF s1.err # NoErr
          THEN Fail(s1, Wrap("getBookCount: error sending count", s1.err))
          ELSE LET s2 == sendMetadata(s1, items, 1, getFailAt, wo, "getBookCount")
               IN IF s2.err # NoErr THEN s2 ELSE armListDeadline(s2)

\* the []BookID handed to GetMetadataIter, by lpath
RECURSIVE BookIDs(_)
BookIDs(bookList) ==
  IF bookList = <<>> THEN ""
  ELSE bookList[1] \o (IF Len(bookList) > 1 THEN "," ELSE "") \o BookIDs(Tail(bookList))

\* resendMetadataList: an ok frame when the iterator counts no book (n),
\* else the metadata of the books it yields and the list deadline
resendMetadataList(s, bookList, wo, n, getFailAt) ==
  LET s0 == Did(s, "GetMetadataIter", BookIDs(bookList), "ok")
  IN IF n = 0
     THEN writeTCP(s0, okStr, wo)
     ELSE LET s1 == sendMetadata(s0, SubSeq(bookList, 1, n), 1, getFailAt, wo,
                                 "resendMetadataList")
          IN IF s1.err # NoErr THEN s1 ELSE armListDeadline(s1)

\* a loop that leaves out the keys the catalog does not hold
RECURSIVE readPriKeys_lenient(_, _, _, _, _)
readPriKeys_lenient(s, rd, i, count, bookList) ==
  IF i > count THEN [s |-> s, bookList |-> bookList]
  ELSE LET s1 == readDecodeCalibrePayload(s, rd[i])
           k == findPriKey(s1.ucdb, rd[i].f.priKey)
       IN readPriKeys_lenient(Fail(s1, NoErr), rd, i + 1, count,
                              IF k = 0 THEN bookList
                              ELSE Append(bookList, s1.ucdb.booklist[k].Lpath))

\* the loop of handleNoop that reads count noop frames and resolves their keys
RECURSIVE readPriKeys(_, _, _, _, _)
readPriKeys(s, rd, i, count, bookList) ==
  IF i > count THEN [s |-> s, bookList |-> bookList]
  ELSE LET s1 == readDecodeCalibrePayload(s, rd[i])
           g == rd[i].f
       IN IF s1.err # NoErr \/ ~g.pok
          THEN [s |-> Fail(s1, Wrap("handleNoop: error getting primary key from calibre",
                                    <<"json">>)),
                bookList |-> bookList]
          ELSE IF g.op # noop
          THEN [s |-> Fail(s1, Errorf("handleNoop: noop expected")), bookList |-> bookList]
          ELSE LET k == findPriKey(s1.ucdb, g.priKey)
               IN IF k = 0
                  THEN [s |-> Fail(s1, Wrap("handleNoop", <<"find: no match">>)),
                        bookList |-> bookList]
                  ELSE readPriKeys(s1, rd, i + 1, count,
                                   Append(bookList, s1.ucdb.booklist[k].Lpath))

\* a handler that answers every noop frame like a keep-alive
handleNoop_answering(s, f, rd, wo, n, getFailAt) ==
  LET s1 == writeTCP(Did(s, "UpdateStatus", "Idle", "-1"), okStr, wo)
  IN IF s1.err # NoErr THEN Fail(s1, Wrap("handleNoop", s1.err)) ELSE s1

handleNoop(s, f, rd, wo, n, getFailAt) ==
  IF ~f.pok
  THEN Fail(s, Wrap("handleNoop: err decoding noop packet", <<"json">>))
  ELSE IF f.empty \/ ~f.hasCount
  THEN LET s1 == writeTCP(Did(s, "UpdateStatus", "Idle", "-1"), okStr, wo)
       IN IF s1.err # NoErr THEN Fail(s1, Wrap("handleNoop", s1.err)) ELSE s1
  ELSE IF f.count = 0
  THEN Fail(s, NoErr)
  ELSE LET r == readPriKeys(Did(s, "UpdateStatus", "SendingExtraMetadata", "-1"),
                            rd, 1, f.count, <<>>)
       IN IF r.s.err # NoErr
          THEN r.s
          ELSE LET s2 == resendMetadataList(r.s, r.bookList, wo,
                                            IF n > Len(r.bookList) THEN Len(r.bookList) ELSE n,
                                            getFailAt)
               IN IF s2.err # NoErr
                  THEN Fail(s2, Wrap("handleNoop: error resending metadata", s2.err))
                  ELSE s2

\* the loop of updateDeviceMetadata that reads count sendBookMetadata frames
RECURSIVE readMetadataFrames(_, _, _, _)
readMetadataFrames(s, rd, i, count) ==
  IF i > count THEN s
  ELSE LET s1 == readDecodeCalibrePayload(s, rd[i])
           g == rd[i].f
       IN IF s1.err # NoErr
          THEN IF s1.err = EOF
               THEN s1
               ELSE Fail(s1, Wrap("updateDeviceMetadata: packet reading failed", s1.err))
          ELSE IF g.op # sendBookMetadata
          THEN Fail(s1, Errorf("updateDeviceMetadata: unexpected calibre packet type"))
          ELSE IF ~g.pok
          THEN Fail(s1, Wrap("updateDeviceMetadata: unable to decode metadata packet",
                             <<"json">>))
          ELSE readMetadataFrames(s1, rd, i + 1, count)

\* a list that holds the last record only
MetadataList_last(rd, i, count) == rd[count].f.lpath

\* md[i] = bkMD.Data: the records in the order their frames were read
RECURSIVE MetadataList(_, _, _)
MetadataList(rd, i, count) ==
  IF i > count THEN ""
  ELSE rd[i].f.lpath \o (IF i < count THEN "," ELSE "") \o MetadataList(rd, i + 1, count)

updateDeviceMetadata(s, f, rd, clientErr) ==
  IF ~f.pok
  THEN Fail(s, Wrap("updateDeviceMetadata: error receiving count", <<"json">>))
  ELSE IF f.count = 0
  THEN Fail(s, NoErr)
  ELSE LET s1 == readMetadataFrames(s, rd, 1, f.count)
       IN IF s1.err # NoErr
          THEN s1
          ELSE Did(s1, "UpdateMetadata", MetadataList(rd, 1, f.count), Res(clientErr))

\* time.Duration(int(float64(len)/float64(102400)+1)*2) * time.Second
bookAltDuration(len) == ((len \div 102400) + 1) * 2

\* the arguments SaveBook is called with
SaveBookArg(md, len, lastBook) ==
  "lpath=" \o md.Lpath \o ",uuid=" \o md.UUID \o ",len=" \o ToString(len)
  \o ",last=" \o Bool(lastBook)

NewLpathJSON(l) == "{lpath:" \o l \o "}"

\* a progress that counts the books before this one
Progress_before(thisBook, totalBooks) == (thisBook * 100) \div totalBooks

\* progress := ((bookDet.ThisBook + 1) * 100) / bookDet.TotalBooks
Progress(thisBook, totalBooks) == ((thisBook + 1) * 100) \div totalBooks

\* a save that takes the lpath of the request whatever CheckLpath gave
sendBookSave_requested(s, f, md, saveErr) ==
  LET lastBook == (f.thisBook = f.totalBooks - 1)
      rq == [md EXCEPT !.Lpath = f.lpath]
      s1 == setTCPDeadline([s EXCEPT !.altDuration = bookAltDuration(f.length)])
      s2 == Did(s1, "SaveBook", SaveBookArg(rq, f.length, lastBook), Res(saveErr))
  IN IF saveErr
     THEN Fail(s2, Wrap("sendBook: client error saving book", <<"client">>))
     ELSE LET s3 == setTCPDeadline(s2)
              s4 == [s3 EXCEPT !.ucdb = addEntry(s3.ucdb, rq)]
          IN Did(s4, "UpdateStatus", "ReceivingBook",
                 ToString(((f.thisBook + 1) * 100) \div f.totalBooks))

\* the part of sendBook after the OK-to-send exchange
sendBookSave(s, f, md, saveErr) ==
  LET lastBook == (f.thisBook = f.totalBooks - 1)
      s1 == setTCPDeadline([s EXCEPT !.altDuration = bookAltDuration(f.length)])
      s2 == Did(s1, "SaveBook", SaveBookArg(md, f.length, lastBook), Res(saveErr))
  IN IF saveErr
     THEN Fail(s2, Wrap("sendBook: client error saving book", <<"client">>))
     ELSE LET s3 == setTCPDeadline(s2)
              s4 == [s3 EXCEPT !.ucdb = addEntry(s3.ucdb, md)]
          IN Did(s4, "UpdateStatus", "ReceivingBook",
                 ToString(Progress(f.thisBook, f.totalBooks)))

sendBookHandler(s, f, wo, newLpath, saveErr) ==
  IF ~f.pok
  THEN Fail(s, Wrap("sendBook: error decoding book details", <<"json">>))
  ELSE LET s0 == IF f.thisBook = 0
                 THEN Did(s, "UpdateStatus", "ReceivingBook", "0")
                 ELSE s
           s1 == Did(s0, "CheckLpath", f.lpath, newLpath)
           md == [UUID |-> f.uuid, Lpath |-> f.lpath]
       IN IF f.wantsSendOkToSendbook
          THEN IF f.canSupportLpathChanges /\ newLpath # f.lpath
               THEN LET s2 == writeTCP(s1, buildJSONpayload(NewLpathJSON(newLpath), ok), wo)
                    IN IF s2.err # NoErr
                       THEN Fail(s2, Wrap("sendBook: error writing OK-to-send packet", s2.err))
                       ELSE sendBookSave(s2, f, [md EXCEPT !.Lpath = newLpath], saveErr)
               ELSE LET s2 == writeTCP(s1, okStr, wo)
                    IN IF s2.err # NoErr
                       THEN Fail(s2, Wrap("sendBook: error writing ok string", s2.err))
                       ELSE sendBookSave(s2, f, md, saveErr)
          ELSE sendBookSave(s1, f, md, saveErr)

UUIDJSON(u) == "{uuid:" \o u \o "}"

\* the loop of deleteBook over the requested lpaths
RECURSIVE deleteEach(_, _, _, _, _)
deleteEach(s, lpaths, i, wo, delFailAt) ==
  IF i > Len(lpaths) THEN s
  ELSE LET k == findLpath(s.ucdb, lpaths[i])
       IN IF k = 0
          THEN Fail(s, Errorf("deleteBook: lpath not in db to delete"))
          ELSE LET bd == s.ucdb.booklist[k]
                   s1 == Did(s, "DeleteBook", bd.Lpath, Res(delFailAt = i))
               IN IF delFailAt = i
                  THEN Fail(s1, Wrap("deleteBook: client error deleting book", <<"client">>))
                  ELSE LET s2 == Fail(writeTCP(s1, buildJSONpayload(UUIDJSON(bd.UUID), ok), wo),
                                      NoErr)
                           s3 == [s2 EXCEPT !.ucdb = removeEntry(s2.ucdb, lpaths[i])]
                           s4 == Did(s3, "UpdateStatus", "DeletingBook",
                                     ToString((i * 100) \div Len(lpaths)))
                       IN deleteEach(s4, lpaths, i + 1, wo, delFailAt)

deleteBookHandler(s, f, wo, delFailAt) ==
  LET s1 == writeTCP(s, okStr, wo)
  IN IF s1.err # NoErr
     THEN Fail(s1, Wrap("deleteBook: error writing ok string", s1.err))
     ELSE IF ~f.pok
     THEN Fail(s1, Wrap("deleteBook: error decoding delbooks", <<"json">>))
     ELSE deleteEach(Did(s1, "UpdateStatus", "DeletingBook", "0"), f.lpaths, 1, wo, delFailAt)

\* an announcement that always gives the same length
GetBookSendJSON_fixed(len) == "{willStream:true,willStreamBinary:true,fileLength:5}"

GetBookSendJSON(len) ==
  "{willStream:true,willStreamBinary:true,fileLength:" \o ToString(len) \o "}"

getBook(s, f, wo, getErr, len, copyErr) ==
  IF ~f.pok
  THEN Fail(s, Errorf("getBook: error decoding calibre settings"))
  ELSE LET s0 == Did(s, "UpdateStatus", "SendingBook", "-1")
       IN IF ~f.canStreamBinary \/ ~f.canStream
          THEN Fail(s0, Errorf("getBook: calibre version does not support binary streaming"))
          ELSE IF findLpath(s0.ucdb, f.lpath) = 0
          THEN Fail(s0, Wrap("getBook: could not get book from db", <<"find: no match">>))
          ELSE LET s1 == Did(s0, "GetBook", f.lpath,
                              IF getErr THEN "error" ELSE ToString(len))
               IN IF getErr
                  THEN Fail(s1, Wrap("getBook: could not open book file", <<"client">>))
                  ELSE LET s2 == writeTCP(s1, buildJSONpayload(GetBookSendJSON(len), ok), wo)
                       IN IF s2.err # NoErr
                          THEN Fail(s2, Wrap("getBook: error writing GetBook payload", s2.err))
                          ELSE LET s3 == setTCPDeadline(
                                           [s2 EXCEPT !.altDuration = bookAltDuration(len)])
                                   s4 == Did(s3, "CopyN", ToString(len), Res(copyErr))
                                   s5 == Did(s4, "CloseBook", f.lpath, "")
                               IN IF copyErr
                                  THEN Fail(s5, Wrap("getBook: error sending book to Calibre",
                                                     <<"neterr">>))
                                  ELSE setTCPDeadline(s5)

\* -------------------------------------------------------------------- Start
NoPl == [err |-> NoErr, f |-> NoFrame]

Init ==
  /\ ucdb \in {initDB(EmptyDB, bl) : bl \in InitBookLists}
  /\ serverPassword = ""
  /\ calibreInfo = ""
  /\ tcpConn = 0
  /\ conns = <<>>
  /\ deferConn = 0
  /\ altDuration = 0
  /\ trace = <<>>
  /\ pc = "start"
  /\ cur = NoFrame
  /\ reader = "none"
  /\ pl = NoPl
  /\ exitRaised = FALSE
  /\ retErr = NoErr
  /\ nread = 0
  /\ call = NoCall
  /\ result = NoResult
  /\ round = NoRound

\* the session fields take the values the handler left in s
Apply(s) ==
  /\ ucdb' = s.ucdb
  /\ serverPassword' = s.serverPassword
  /\ calibreInfo' = s.calibreInfo
  /\ tcpConn' = s.tcpConn
  /\ altDuration' = s.altDuration
  /\ trace' = s.trace

\* defer c.tcpConn.Close(): the receiver was evaluated when the defer
\* statement ran, so it is the first connection that is closed
DeferredClose(cs) == [i \in DOMAIN cs |-> IF i = deferConn THEN "closed" ELSE cs[i]]

\* a dispatcher that would also take the exit signal while a handler runs
ExitSelectable_anywhere == pc \in {"select", "handler"}

\* where the dispatcher may take the exit signal: the select at the loop top
ExitSelectable == pc = "select"

\* Start up to the loop: SetExitChannel, UpdateStatus(Connecting), establishTCP
StartConnect ==
  /\ pc = "start"
  /\ \E connected \in BOOLEAN :
       LET s == establishTCP(Did(St, "UpdateStatus", "Connecting", "-1"), connected)
       IN /\ Apply(s)
          /\ conns' = s.conns
          /\ IF s.err # NoErr
             THEN /\ pc' = "done"
                  /\ retErr' = Wrap("Start: establishing connection failed", s.err)
                  /\ UNCHANGED <<deferConn, reader>>
             ELSE /\ pc' = "select"
                  /\ deferConn' = s.tcpConn
                  /\ reader' = "spawned"
                  /\ UNCHANGED retErr
  /\ UNCHANGED <<cur, pl, exitRaised, nread, call, result, round>>

ConnOpen == tcpConn # 0 /\ conns[tcpConn] = "open"

\* what the transport may deliver to one readDecodeCalibrePayload of the
\* read routine
ReadOutcomes ==
  IF ConnOpen
  THEN {[k |-> "frame", f |-> f] :
          f \in {g \in Frames : g.op = sendBook => length(ucdb) < MaxBooks}}
       \cup {[k |-> e, f |-> NoFrame] : e \in {"eof", "timeout", "badsize", "decode"}}
  ELSE {[k |-> "closed", f |-> NoFrame]}

\* go c.readDecodeCalibrePayloadChan(calPl): the read routine starts to
\* run; what the device did for the frame before is no longer looked at
ReaderStart ==
  /\ reader = "spawned"
  /\ nread < MaxFrames
  /\ reader' = "reading"
  /\ trace' = <<>>
  /\ cur' = NoFrame
  /\ UNCHANGED <<ucdb, serverPassword, calibreInfo, tcpConn, conns, deferConn, altDuration,
                 pc, pl, exitRaised, retErr, nread, call, result, round>>

\* the read routine's readDecodeCalibrePayload, up to the send on calPl
ReaderRead ==
  /\ reader = "reading"
  /\ \E r \in ReadOutcomes :
       LET s == readDecodeCalibrePayload(St, r)
       IN /\ pl' = [err |-> s.err, f |-> r.f]
          /\ altDuration' = s.altDuration
          /\ trace' = s.trace
  /\ reader' = "ready"
  /\ nread' = nread + 1
  /\ UNCHANGED <<ucdb, serverPassword, calibreInfo, tcpConn, conns, deferConn, pc,
                 cur, exitRaised, retErr, call, result, round>>

\* the client sends on the exit channel; the send blocks until Start takes it
RaiseExit ==
  /\ pc \in {"select", "handler"}
  /\ ~exitRaised
  /\ exitRaised' = TRUE
  /\ trace' = Append(trace, Ev("ExitRaised", "", ""))
  /\ UNCHANGED <<ucdb, serverPassword, calibreInfo, tcpConn, conns, deferConn, altDuration,
                 pc, cur, reader, pl, retErr, nread, call, result, round>>

\* case <-exitChan: return nil
SelectExit ==
  /\ ExitSelectable
  /\ exitRaised
  /\ exitRaised' = FALSE
  /\ pc' = "done"
  /\ retErr' = NoErr
  /\ conns' = DeferredClose(conns)
  /\ trace' = Append(trace, Ev("ExitSignal", "", ""))
  /\ UNCHANGED <<ucdb, serverPassword, calibreInfo, tcpConn, deferConn, altDuration,
                 cur, reader, pl, nread, call, result, round>>

\* a dispatcher that spawns the next read routine as soon as it has taken a
\* frame, before the handler of that frame runs
SelectRecv_eager ==
  /\ pc = "select"
  /\ reader = "ready"
  /\ reader' = IF pl.err # NoErr THEN "none" ELSE "spawned"
  /\ pl' = NoPl
  /\ IF pl.err # NoErr
     THEN /\ pc' = "done"
          /\ retErr' = IF pl.err = EOF
                       THEN NoErr
                       ELSE Wrap("Start: packet reading failed", pl.err)
          /\ conns' = DeferredClose(conns)
          /\ UNCHANGED <<cur, trace>>
     ELSE /\ pc' = "handler"
          /\ cur' = pl.f
          /\ trace' = <<>>
          /\ UNCHANGED <<retErr, conns>>
  /\ UNCHANGED <<ucdb, serverPassword, calibreInfo, tcpConn, deferConn, altDuration,
                 exitRaised, nread, call, result, round>>

\* case pl := <-calPl: a read error ends Start, a frame goes to its handler
SelectRecv ==
  /\ pc = "select"
  /\ reader = "ready"
  /\ reader' = "none"
  /\ pl' = NoPl
  /\ IF pl.err # NoErr
     THEN /\ pc' = "done"
          /\ retErr' = IF pl.err = EOF
                       THEN NoErr
                       ELSE Wrap("Start: packet reading failed", pl.err)
          /\ conns' = DeferredClose(conns)
          /\ UNCHANGED <<cur, trace>>
     ELSE /\ pc' = "handler"
          /\ cur' = pl.f
          /\ trace' = <<>>
          /\ UNCHANGED <<retErr, conns>>
  /\ UNCHANGED <<ucdb, serverPassword, calibreInfo, tcpConn, deferConn, altDuration,
                 exitRaised, nread, call, result, round>>

\* a Start that would treat every error wrapping io.EOF as a clean end
StartResult_unwrapping(err) ==
  IF Is(err, EOF) THEN NoErr ELSE Wrap("Start: exiting with error", err)

\* what Start returns for a handler's error: nil for io.EOF itself
StartResult(err) ==
  IF err = EOF THEN NoErr ELSE Wrap("Start: exiting with error", err)

\* the end of a case of the switch: an error ends Start, otherwise the loop
\* spawns the next read routine and selects again
Finish(s) ==
  /\ Apply(s)
  /\ IF s.err = NoErr
     THEN /\ pc' = "select"
          /\ reader' = "spawned"
          /\ conns' = s.conns
          /\ UNCHANGED retErr
     ELSE /\ pc' = "done"
          /\ retErr' = StartResult(s.err)
          /\ conns' = DeferredClose(s.conns)
          /\ UNCHANGED reader
  /\ UNCHANGED <<deferConn, cur, pl, exitRaised, nread, call, result, round>>

Handling(o) == pc = "handler" /\ cur.op = o

WOsUpTo(n) == {w \in WOs : w.at <= n}

\* the books a metadata iterator over the whole device yields
DeviceItems == [i \in DOMAIN ucdb.booklist |-> ucdb.booklist[i].Lpath]

HandleGetInitInfo ==
  /\ Handling(getInitializationInfo)
  /\ \E wo \in WOsUpTo(1) : Finish(getInitInfo(St, cur, wo))

HandleMessage ==
  /\ Handling(displayMessage)
  /\ \E wo \in WOsUpTo(1), pw \in Passwords, pwErr \in BOOLEAN, connected \in BOOLEAN :
       Finish(handleMessage(St, cur, wo, pw, pwErr, connected))

HandleGetDeviceInfo ==
  /\ Handling(getDeviceInformation)
  /\ \E wo \in WOsUpTo(1) : Finish(getDeviceInfo(St, wo))

HandleSetDeviceInfo ==
  /\ Handling(setCalibreDeviceInfo)
  /\ \E wo \in WOsUpTo(1), clientErr \in BOOLEAN :
       Finish(setDeviceInfo(St, cur, wo, clientErr))

HandleFreeSpace ==
  /\ Handling(freeSpace)
  /\ \E wo \in WOsUpTo(1) : Finish(getFreeSpace(St, wo))

HandleGetBookCount ==
  /\ Handling(getBookCount)
  /\ \E wo \in WOsUpTo(Len(DeviceItems) + 1) :
       \E getFailAt \in IF wo.at = 0 THEN 0..Len(DeviceItems) ELSE {0} :
         Finish(getBookCountHandler(St, cur, wo, DeviceItems, getFailAt))

HandleSendBooklists ==
  /\ Handling(sendBooklists)
  /\ \E rd \in InnerReadSeqs(cur.count, MetadataReads, BrokenReads \cup PriKeyReads),
        clientErr \in BOOLEAN :
       Finish(updateDeviceMetadata(St, cur, rd, clientErr))

HandleSetLibraryInfo ==
  /\ Handling(setLibraryInfo)
  /\ \E wo \in WOsUpTo(1), clientErr \in BOOLEAN :
       Finish(setLibraryInfoHandler(St, cur, wo, clientErr))

HandleSendBook ==
  /\ Handling(sendBook)
  /\ \E wo \in WOsUpTo(1), newLpath \in Lpaths, saveErr \in BOOLEAN :
       Finish(sendBookHandler(St, cur, wo, newLpath, saveErr))

HandleDeleteBook ==
  /\ Handling(deleteBook)
  /\ \E wo \in WOsUpTo(Len(cur.lpaths) + 1), delFailAt \in 0..Len(cur.lpaths) :
       Finish(deleteBookHandler(St, cur, wo, delFailAt))

HandleGetBook ==
  /\ Handling(getBookFileSegment)
  /\ \E wo \in WOsUpTo(1), getErr \in BOOLEAN, len \in FileLengths, copyErr \in BOOLEAN :
       Finish(getBook(St, cur, wo, getErr, len, copyErr))

HandleNoop ==
  /\ Handling(noop)
  /\ \E rd \in InnerReadSeqs(cur.count, PriKeyReads, BrokenReads \cup MetadataReads) :
       LET resolved == \A i \in DOMAIN rd : /\ rd[i] \in PriKeyReads
                                             /\ findPriKey(ucdb, rd[i].f.priKey) # 0
       IN \E wo \in IF resolved THEN WOsUpTo(cur.count + 1) ELSE WOsUpTo(0),
             n \in IF resolved THEN {0, cur.count} ELSE {0} :
            \E getFailAt \in IF wo.at = 0 THEN 0..n ELSE {0} :
              Finish(handleNoop(St, cur, rd, wo, n, getFailAt))

\* an opcode the switch has no case for: err keeps its value, nil
HandleNoCase ==
  /\ pc = "handler"
  /\ cur.op \notin HandledOps
  /\ Finish(St)

Next ==
  \/ StartConnect
  \/ ReaderStart
  \/ ReaderRead
  \/ RaiseExit
  \/ SelectExit
  \/ SelectRecv
  \/ HandleGetInitInfo
  \/ HandleMessage
  \/ HandleGetDeviceInfo
  \/ HandleSetDeviceInfo
  \/ HandleFreeSpace
  \/ HandleGetBookCount
  \/ HandleSendBooklists
  \/ HandleSetLibraryInfo
  \/ HandleSendBook
  \/ HandleDeleteBook
  \/ HandleGetBook
  \/ HandleNoop
  \/ HandleNoCase

Spec == Init /\ [][Next]_vars

\* =============================================================== properties
\* the handler of cur has returned and no frame has been read since
Returned == cur # NoFrame /\ pc \in {"select", "done"}

Events(tr, names) == SelectSeq(tr, LAMBDA e : e.ev \in names)
Happened(tr, e) == \E i \in DOMAIN tr : tr[i] = e

\* the payloads that went out on the transport, in order
Written(tr) ==
  LET w == SelectSeq(tr, LAMBDA e : e.ev = "Write" /\ e.res = "ok")
  IN [i \in DOMAIN w |-> w[i].arg]

\* C1: a frame whose opcode has no handler is answered with exactly one ok
\* frame 6[0,{}] and the session stays in its loop without an error.
C1_UnhandledOpcodeAnswered ==
  (Returned /\ cur.op \notin HandledOps) =>
    (Written(trace) = <<okStr>> /\ retErr = NoErr)

\* C2: no two catalog entries have the same lpath.
C2_LpathUnique ==
  \A i, j \in DOMAIN ucdb.booklist :
    ucdb.booklist[i].Lpath = ucdb.booklist[j].Lpath => i = j

\* the step is a sendBook that succeeded and saved the book under lpath l
SendBookSaved(l) ==
  /\ pc = "handler" /\ cur.op = sendBook /\ pc' = "select"
  /\ Happened(trace', Ev("SaveBook",
                         SaveBookArg([UUID |-> cur.uuid, Lpath |-> l], cur.length,
                                     cur.thisBook = cur.totalBooks - 1),
                         "ok"))

\* C3: a successful sendBook whose lpath is already in the catalog replaces
\* that entry: the length is unchanged and the entry found for the lpath
\* has the old pri_key and the new uuid.
C3_InsertReplaces ==
  [][\A l \in Lpaths :
       (SendBookSaved(l) /\ findLpath(ucdb, l) # 0) =>
         /\ length(ucdb') = length(ucdb)
         /\ findLpath(ucdb', l) # 0
         /\ ucdb'.booklist[findLpath(ucdb', l)].PriKey
              = ucdb.booklist[findLpath(ucdb, l)].PriKey
         /\ ucdb'.booklist[findLpath(ucdb', l)].UUID = cur.uuid]_vars

PriKeys(db) == {db.booklist[i].PriKey : i \in DOMAIN db.booklist}

\* C4: no two catalog entries share a pri_key, every key in the catalog is
\* below the key counter, the counter never goes back, and a key that
\* enters the catalog is at least the counter of the moment before: it is
\* above every key handed out earlier, removed entries included.
C4_PriKeysUniqueIncreasing ==
  /\ [](/\ \A i, j \in DOMAIN ucdb.booklist :
             ucdb.booklist[i].PriKey = ucdb.booklist[j].PriKey => i = j
        /\ \A k \in PriKeys(ucdb) : k < ucdb.nextKey)
  /\ [][/\ ucdb'.nextKey >= ucdb.nextKey
        /\ \A k \in PriKeys(ucdb') \ PriKeys(ucdb) : k >= ucdb.nextKey]_vars

\* a book was inserted after an entry had been removed: the new entry has
\* the newest key and more keys were handed out than entries remain
C4_InsertAfterRemoval ==
  /\ Returned /\ cur.op = sendBook /\ retErr = NoErr
  /\ length(ucdb) > 0
  /\ ucdb.booklist[length(ucdb)].PriKey = ucdb.nextKey - 1
  /\ ucdb.booklist[length(ucdb)].Extension = ""
  /\ ucdb.nextKey - EmptyDB.nextKey > length(ucdb)

PasswordSteps == Events(trace, {"Write", "Close", "GetPassword", "Connect"})

PasswordErrorHandled ==
  Returned /\ cur.op = displayMessage /\ cur.pok /\ cur.messageKind = passwordError

\* C5: handling a passwordError message, the device writes the ok frame,
\* closes the transport, asks the client for the password and, given a
\* non-empty one, opens a new transport, in this order; the password asked
\* for is the stored one, which nothing else changes; and the reply to a
\* getInitializationInfo with a challenge carries the hash of the stored
\* password followed by the challenge.
C5_PasswordErrorReconnects ==
  /\ [](PasswordErrorHandled =>
          /\ Len(PasswordSteps) \in {3, 4}
          /\ PasswordSteps[1].ev = "Write" /\ PasswordSteps[1].arg = okStr
          /\ PasswordSteps[2].ev = "Close"
          /\ PasswordSteps[3].ev = "GetPassword"
          /\ PasswordSteps[3].arg = serverPassword
          /\ Len(PasswordSteps) = 4 <=>
               (PasswordSteps[3].res = "ok" /\ PasswordSteps[3].arg # "")
          /\ Len(PasswordSteps) = 4 => PasswordSteps[4].ev = "Connect")
  /\ []((Returned /\ cur.op = getInitializationInfo /\ cur.pok
         /\ cur.passwordChallenge # "") =>
          /\ Len(Events(trace, {"Write"})) = 1
          /\ Events(trace, {"Write"})[1].arg =
               buildJSONpayload(
                 CalibreInitJSON("sha1(" \o serverPassword \o cur.passwordChallenge \o ")"),
                 ok))
  /\ [][serverPassword' # serverPassword =>
          (pc = "handler" /\ cur.op = displayMessage /\ cur.messageKind = passwordError
           /\ \E r \in {"ok", "error"} :
                Happened(trace', Ev("GetPassword", serverPassword', r)))]_vars

\* the handshake was answered with the hash of "uncaged" and the challenge
\* "abc" on the connection opened after a passwordError
C5_HashOfObtainedPassword ==
  /\ Returned /\ cur.op = getInitializationInfo /\ cur.passwordChallenge = "abc"
  /\ serverPassword = "uncaged"
  /\ Len(conns) = 2 /\ tcpConn = 2
  /\ Written(trace) = <<buildJSONpayload(CalibreInitJSON("sha1(uncagedabc)"), ok)>>

EmptyPasswordObtained ==
  PasswordErrorHandled /\ Happened(trace, Ev("GetPassword", "", "ok"))

\* C6: when the password obtained after a passwordError is empty, Start
\* returns an error that wraps NoPassword, the status EmptyPasswordReceived
\* is reported and no new transport is opened.
C6_EmptyPasswordFails ==
  EmptyPasswordObtained =>
    /\ pc = "done"
    /\ Is(retErr, NoPassword)
    /\ Happened(trace, Ev("UpdateStatus", "EmptyPasswordReceived", "-1"))
    /\ Events(trace, {"Connect"}) = <<>>
    /\ ~ConnOpen

C6_EmptyPasswordSeen == EmptyPasswordObtained /\ pc = "done"

\* C7: when Start has returned, every connection establishTCP opened during
\* the session is closed.
C7_AllConnectionsClosed ==
  pc = "done" => \A i \in DOMAIN conns : conns[i] = "closed"

\* Start returns in this step
Returns == pc # "done" /\ pc' = "done"

\* the step takes the exit signal, or takes an EOF from the read routine
TakesExit == pc = "select" /\ exitRaised /\ ~exitRaised'
TakesBoundaryEOF == pc = "select" /\ reader = "ready" /\ reader' = "none" /\ pl.err = EOF

PassesWriteError ==
  {getInitializationInfo, getDeviceInformation, setCalibreDeviceInfo, freeSpace,
   setLibraryInfo}

\* the step is a handler that ends on io.EOF itself: the transport closed
\* under the reply write of a handler that passes the error on, or under
\* the read of a sendBookMetadata frame inside sendBooklists
HandlerEndsOnEOF ==
  /\ pc = "handler"
  /\ trace' # <<>>
  /\ \/ /\ cur.op \in PassesWriteError
        /\ trace'[Len(trace')].ev = "Write" /\ trace'[Len(trace')].res = "eof"
     \/ /\ cur.op = sendBooklists
        /\ trace'[Len(trace')] = Ev("UpdateStatus", "Disconnected", "-1")

CollaboratorCalls ==
  {"SetDeviceInfo", "SetLibraryInfo", "UpdateMetadata", "GetPassword", "SaveBook",
   "DeleteBook", "GetBook", "MetadataIter.Get"}

\* C9: when a collaborator call made by a handler reports an error, Start
\* returns a non-nil error and no further frame is dispatched.
C9_CollaboratorErrorAborts ==
  (Returned /\ \E i \in DOMAIN trace :
                 trace[i].ev \in CollaboratorCalls /\ trace[i].res = "error") =>
    (pc = "done" /\ retErr # NoErr)

Count(db, l) == Cardinality({i \in DOMAIN db.booklist : db.booklist[i].Lpath = l})

\* how many times the call named name was made with argument a and ended r
Calls(tr, name, a, r) == Cardinality({i \in DOMAIN tr : tr[i] = Ev(name, a, r)})

\* the position of the first event named name in tr, 0 when there is none
FirstIndex(tr, name) ==
  IF \E i \in DOMAIN tr : tr[i].ev = name
  THEN CHOOSE i \in DOMAIN tr :
         tr[i].ev = name /\ \A j \in DOMAIN tr : tr[j].ev = name => i <= j
  ELSE 0

\* the step is the handler of opcode o, from its call to its return
HandlerStep(o) == pc = "handler" /\ pc' # "handler" /\ cur.op = o

\* C11: sendBook appends one catalog entry exactly when SaveBook succeeded
\* and otherwise leaves the catalog as it was; deleteBook removes, for
\* every lpath, as many entries as DeleteBook calls succeeded for it, so
\* the entry of a failed DeleteBook and the entries of later lpaths stay;
\* no other step changes the catalog.
C11_CatalogChangesOnSuccess ==
  [][/\ HandlerStep(sendBook) =>
          IF \E i \in DOMAIN trace' : trace'[i].ev = "SaveBook" /\ trace'[i].res = "ok"
          THEN /\ length(ucdb') = length(ucdb) + 1
               /\ SubSeq(ucdb'.booklist, 1, length(ucdb)) = ucdb.booklist
          ELSE ucdb' = ucdb
     /\ HandlerStep(deleteBook) =>
          /\ \A l \in Lpaths :
               /\ Count(ucdb', l) = Count(ucdb, l) - Calls(trace', "DeleteBook", l, "ok")
               /\ Calls(trace', "DeleteBook", l, "error") > 0 => Count(ucdb', l) > 0
          /\ PriKeys(ucdb') \subseteq PriKeys(ucdb)
     /\ ~(HandlerStep(sendBook) \/ HandlerStep(deleteBook)) => ucdb' = ucdb]_vars

\* a deleteBook for a.epub and b.epub removed a.epub and stopped at the
\* failed DeleteBook of b.epub, whose entry is still there
C11_DeleteStoppedAtFailure ==
  /\ Returned /\ cur.op = deleteBook
  /\ Calls(trace, "DeleteBook", "a.epub", "ok") = 1
  /\ Calls(trace, "DeleteBook", "b.epub", "error") = 1
  /\ Count(ucdb, "a.epub") = 0 /\ Count(ucdb, "b.epub") = 1

\* sendBook has returned after a successful SaveBook
SendBookSucceeded ==
  /\ Returned /\ cur.op = sendBook /\ cur.pok
  /\ \E i \in DOMAIN trace : trace[i].ev = "SaveBook" /\ trace[i].res = "ok"

\* what CheckLpath answered in the handler that has returned
CheckedLpath == trace[FirstIndex(trace, "CheckLpath")].res

\* SaveBook was called with the request's metadata under lpath l
SavedUnder(l) ==
  Happened(trace, Ev("SaveBook",
                     SaveBookArg([UUID |-> cur.uuid, Lpath |-> l], cur.length,
                                 cur.thisBook = cur.totalBooks - 1),
                     "ok"))

\* the lpath l went to SaveBook and into the entry inserted last, and a
\* changed lpath was announced to the server
LpathUsed(l) ==
  /\ SavedUnder(l)
  /\ ucdb.booklist[length(ucdb)].Lpath = l
  /\ ucdb.booklist[length(ucdb)].PriKey = ucdb.nextKey - 1
  /\ IF l # cur.lpath
     THEN Written(trace) = <<buildJSONpayload("{lpath:" \o l \o "}", ok)>>
     ELSE \A i \in DOMAIN Written(trace) : Written(trace)[i] = okStr

\* C12 as stated: whenever CheckLpath answers another lpath and
\* canSupportLpathChanges is true the new lpath is what SaveBook and the
\* catalog get and what is announced, whatever wantsSendOkToSendbook is;
\* otherwise the requested lpath is kept.
C12_RewriteWheneverSupported ==
  SendBookSucceeded =>
    LpathUsed(IF cur.canSupportLpathChanges /\ CheckedLpath # cur.lpath
              THEN CheckedLpath ELSE cur.lpath)

\* C12: the lpath is rewritten to the one CheckLpath answered exactly
\* when wantsSendOkToSendbook and canSupportLpathChanges are both true and
\* the answer differs; in every other case the requested lpath is kept.
C12_RewriteOnlyWithSendOk ==
  SendBookSucceeded =>
    LpathUsed(IF cur.wantsSendOkToSendbook /\ cur.canSupportLpathChanges
                 /\ CheckedLpath # cur.lpath
              THEN CheckedLpath ELSE cur.lpath)

\* a book requested as a.epub was saved and catalogued as b.epub
C12_Rewritten ==
  /\ SendBookSucceeded /\ cur.lpath = "a.epub" /\ CheckedLpath = "b.epub"
  /\ cur.wantsSendOkToSendbook /\ cur.canSupportLpathChanges
  /\ SavedUnder("b.epub")
  /\ ucdb.booklist[length(ucdb)].Lpath = "b.epub"

\* C13: in sendBook, with wantsSendOkToSendbook exactly one frame, the ok
\* frame or the new lpath frame, is written before SaveBook reads the
\* binary, and without it none; nothing is written afterwards; SaveBook
\* gets lastBook = (thisBook = totalBooks - 1); and after a successful
\* save the progress reported is ((thisBook + 1) * 100) / totalBooks.
C13_ReplyBeforeBinary ==
  (Returned /\ cur.op = sendBook /\ FirstIndex(trace, "SaveBook") # 0) =>
    LET k == FirstIndex(trace, "SaveBook")
        before == Events(SubSeq(trace, 1, k - 1), {"Write"})
        after == SubSeq(trace, k + 1, Len(trace))
    IN /\ Len(before) = IF cur.wantsSendOkToSendbook THEN 1 ELSE 0
       /\ \A i \in DOMAIN before :
            /\ before[i].res = "ok"
            /\ before[i].arg \in
                 {okStr} \cup {buildJSONpayload("{lpath:" \o l \o "}", ok) : l \in Lpaths}
       /\ Events(after, {"Write", "SaveBook"}) = <<>>
       /\ \E l \in Lpaths :
            trace[k].arg = SaveBookArg([UUID |-> cur.uuid, Lpath |-> l], cur.length,
                                       cur.thisBook = cur.totalBooks - 1)
       /\ Events(after, {"UpdateStatus"}) =
            IF trace[k].res = "ok"
            THEN <<Ev("UpdateStatus", "ReceivingBook",
                      ToString(((cur.thisBook + 1) * 100) \div cur.totalBooks))>>
            ELSE <<>>

\* the first of two books was saved after the ok frame: not the last
\* book, progress 50
C13_FirstOfTwoSaved ==
  /\ SendBookSucceeded /\ cur.wantsSendOkToSendbook
  /\ cur.thisBook = 0 /\ cur.totalBooks = 2
  /\ Written(trace) = <<okStr>>
  /\ Happened(trace, Ev("UpdateStatus", "ReceivingBook", "50"))

Distinct(q) == \A i, j \in DOMAIN q : q[i] = q[j] => i = j

\* the deleteBook step met no failure of the transport or of the client
DeleteBookUndisturbed ==
  /\ HandlerStep(deleteBook) /\ cur.pok
  /\ \A i \in DOMAIN trace' :
       /\ trace'[i].ev = "Write" => trace'[i].res = "ok"
       /\ trace'[i].ev = "DeleteBook" => trace'[i].res = "ok"

\* C14: a deleteBook whose lpaths are all in the catalog writes the ok
\* frame, then for each lpath in request order calls DeleteBook and writes
\* the {uuid} frame of its entry, reporting progress ((i+1)*100)/n after
\* the i-th deletion; afterwards the catalog is the previous one without
\* the listed lpaths, the other entries in their order with their keys.
C14_DeleteBookRemovesListed ==
  [][(/\ DeleteBookUndisturbed
      /\ Distinct(cur.lpaths)
      /\ \A i \in DOMAIN cur.lpaths : Count(ucdb, cur.lpaths[i]) > 0) =>
       LET n == Len(cur.lpaths)
           io == Events(trace', {"Write", "DeleteBook"})
           uuidOf(l) == ucdb.booklist[findLpath(ucdb, l)].UUID
       IN /\ Len(io) = 2 * n + 1
          /\ io[1] = Ev("Write", okStr, "ok")
          /\ \A i \in 1..n :
               /\ io[2 * i] = Ev("DeleteBook", cur.lpaths[i], "ok")
               /\ io[2 * i + 1] =
                    Ev("Write",
                       buildJSONpayload("{uuid:" \o uuidOf(cur.lpaths[i]) \o "}", ok), "ok")
          /\ Events(trace', {"UpdateStatus"}) =
               [i \in 1..(n + 1) |->
                  Ev("UpdateStatus", "DeletingBook",
                     IF i = 1 THEN "0" ELSE ToString(((i - 1) * 100) \div n))]
          /\ ucdb'.booklist =
               SelectSeq(ucdb.booklist, LAMBDA b : b.Lpath \notin Range(cur.lpaths))
          /\ pc' = "select"]_vars

\* the lpath at position i of the request q has no entry left in catalog
\* db when its turn comes: the earlier positions used them up
MissingAt(db, q, i) ==
  Count(db, q[i]) <= Cardinality({j \in 1..(i - 1) : q[j] = q[i]})

FirstMissing(db, q) ==
  IF \E i \in DOMAIN q : MissingAt(db, q, i)
  THEN CHOOSE i \in DOMAIN q :
         MissingAt(db, q, i) /\ \A j \in DOMAIN q : MissingAt(db, q, j) => i <= j
  ELSE 0

\* C15: a deleteBook that comes to an lpath the catalog does not hold, a
\* repeated one included, stops there: DeleteBook was called and a {uuid}
\* frame written only for the lpaths before it, and Start returns the
\* error "lpath not in db to delete".
C15_MissingLpathFatal ==
  [][(/\ HandlerStep(deleteBook) /\ cur.pok
      /\ FirstMissing(ucdb, cur.lpaths) # 0
      /\ FirstIndex(trace', "Write") # 0
      /\ trace'[FirstIndex(trace', "Write")].res = "ok"
      /\ \A i \in DOMAIN trace' : trace'[i].ev = "DeleteBook" => trace'[i].res = "ok") =>
       LET m == FirstMissing(ucdb, cur.lpaths)
           calls == Events(trace', {"DeleteBook"})
       IN /\ Len(calls) = m - 1
          /\ \A i \in DOMAIN calls : calls[i].arg = cur.lpaths[i]
          /\ Len(Events(trace', {"Write"})) = m
          /\ pc' = "done"
          /\ Is(retErr', <<"deleteBook: lpath not in db to delete">>)]_vars

\* a deleteBook naming a.epub twice deleted the one entry and failed at
\* the repetition
C15_RepeatedLpathFailed ==
  /\ Returned /\ cur.op = deleteBook /\ cur.lpaths = <<"a.epub", "a.epub">>
  /\ Calls(trace, "DeleteBook", "a.epub", "ok") = 1
  /\ Len(Events(trace, {"Write"})) = 2
  /\ Count(ucdb, "a.epub") = 0
  /\ pc = "done" /\ Is(retErr, <<"deleteBook: lpath not in db to delete">>)

\* getBook has returned after GetBook gave it a source
GetBookOpened ==
  /\ Returned /\ cur.op = getBookFileSegment
  /\ \E i \in DOMAIN trace : trace[i].ev = "GetBook" /\ trace[i].res # "error"

\* C16: every source GetBook returned is closed before getBook returns.
C16_SourceClosed ==
  GetBookOpened => Happened(trace, Ev("CloseBook", cur.lpath, ""))

\* C17: getBook fails without calling GetBook and without writing when
\* canStream or canStreamBinary is false or the lpath is not in the
\* catalog; otherwise it calls GetBook and, given a source, writes the
\* announcing frame with the length GetBook returned and then copies that
\* many bytes, in this order.
C17_GetBookAnnouncesLength ==
  (Returned /\ cur.op = getBookFileSegment /\ cur.pok) =>
    LET io == Events(trace, {"GetBook", "Write", "CopyN"})
    IN IF ~cur.canStream \/ ~cur.canStreamBinary \/ Count(ucdb, cur.lpath) = 0
       THEN io = <<>> /\ pc = "done" /\ retErr # NoErr
       ELSE /\ Len(io) >= 1
            /\ io[1].ev = "GetBook" /\ io[1].arg = cur.lpath
            /\ IF io[1].res = "error"
               THEN Len(io) = 1 /\ pc = "done" /\ retErr # NoErr
               ELSE /\ Len(io) >= 2
                    /\ io[2].ev = "Write"
                    /\ io[2].arg =
                         buildJSONpayload("{willStream:true,willStreamBinary:true,fileLength:"
                                          \o io[1].res \o "}", ok)
                    /\ IF io[2].res = "ok"
                       THEN Len(io) = 3 /\ io[3].ev = "CopyN" /\ io[3].arg = io[1].res
                       ELSE Len(io) = 2 /\ pc = "done" /\ retErr # NoErr

\* a file of 204800 bytes was announced and sent
C17_FileSent ==
  /\ Returned /\ cur.op = getBookFileSegment /\ retErr = NoErr
  /\ Happened(trace, Ev("GetBook", cur.lpath, "204800"))
  /\ Written(trace) =
       <<buildJSONpayload("{willStream:true,willStreamBinary:true,fileLength:204800}", ok)>>
  /\ Happened(trace, Ev("CopyN", "204800", "ok"))

\* the arguments of the events of q, joined by commas
RECURSIVE JoinArgs(_)
JoinArgs(q) ==
  IF q = <<>> THEN ""
  ELSE q[1].arg \o (IF Len(q) > 1 THEN "," ELSE "") \o JoinArgs(Tail(q))

\* C18: sendBooklists with count n reads at most n further frames and
\* returns nil only after n of them; UpdateMetadata is called at most
\* once, only for n > 0, only after n frames of opcode sendBookMetadata
\* were read, and with their records in arrival order; a frame with
\* another opcode makes the handler fail without the call; with count 0
\* nothing is read and nothing is called.
C18_MetadataFramesThenUpdate ==
  [][(HandlerStep(sendBooklists) /\ cur.pok) =>
       LET reads == Events(trace', {"Read"})
           ups == Events(trace', {"UpdateMetadata"})
           n == cur.count
       IN /\ Len(reads) <= n
          /\ Len(ups) <= 1
          /\ pc' = "select" => (Len(reads) = n /\ Len(ups) = IF n = 0 THEN 0 ELSE 1)
          /\ \A i \in DOMAIN reads :
               reads[i].res # "16" => (ups = <<>> /\ pc' = "done")
          /\ \A i \in DOMAIN reads :
               reads[i].res \in {ToString(o) : o \in (ListedOps \cup {10, 20}) \ {16}} =>
                 retErr' # NoErr
          /\ ups # <<>> =>
               /\ Len(reads) = n
               /\ ups[1].arg = JoinArgs(reads)
               /\ \A i \in DOMAIN trace' :
                    trace'[i].ev = "Read" => i < FirstIndex(trace', "UpdateMetadata")]_vars

\* two metadata frames were read, b.epub before a.epub, and passed on in
\* that order
C18_TwoRecordsPassed ==
  /\ Returned /\ cur.op = sendBooklists /\ cur.count = 2 /\ pc = "select"
  /\ Happened(trace, Ev("UpdateMetadata", "b.epub,a.epub", "ok"))

\* the frame of catalog record b
EntryFrame(b) ==
  buildJSONpayload("{priKey:" \o ToString(b.PriKey) \o ",uuid:" \o b.UUID
                   \o ",extension:" \o b.Extension \o ",lpath:" \o b.Lpath
                   \o ",last_modified:" \o b.LastModified \o "}", ok)

\* the frames a getBookCount with cached metadata owes for the catalog
CachedListFrames ==
  <<buildJSONpayload("{count:" \o ToString(Len(ucdb.booklist))
                     \o ",willStream:true,willScan:true}", ok)>>
  \o [i \in DOMAIN ucdb.booklist |-> EntryFrame(ucdb.booklist[i])]

\* C19: getBookCount with willUseCachedMetadata writes the count frame
\* with the catalog length and then one entry frame per catalog record, in
\* catalog order, with the record's pri_key, uuid, extension, lpath and
\* last_modified: all of them unless a write fails, and nothing else.
C19_CachedListStreamed ==
  (Returned /\ cur.op = getBookCount /\ cur.pok /\ cur.willUseCachedMetadata) =>
    LET w == Events(trace, {"Write"})
    IN /\ Len(w) <= Len(CachedListFrames)
       /\ \A i \in DOMAIN w : w[i].arg = CachedListFrames[i]
       /\ (\A i \in DOMAIN w : w[i].res = "ok") => Written(trace) = CachedListFrames
       /\ Events(trace, {"GetMetadataIter", "MetadataIter.Get"}) = <<>>

\* a catalog of two records was streamed: three frames
C19_TwoEntriesStreamed ==
  /\ Returned /\ cur.op = getBookCount /\ cur.willUseCachedMetadata
  /\ Len(ucdb.booklist) = 2
  /\ Len(Written(trace)) = 3
  /\ pc = "select"

\* C20: on a noop frame with the empty object the device writes exactly
\* one frame, 6[0,{}], reads nothing, and leaves the catalog and the
\* stored password as they are; when the write succeeds Start goes on to
\* the next frame.
C20_KeepAliveAnswered ==
  [][(HandlerStep(noop) /\ cur.pok /\ cur.empty) =>
       LET w == Events(trace', {"Write"})
       IN /\ Len(w) = 1
          /\ w[1].arg = "6[0,{}]"
          /\ Events(trace', {"Read"}) = <<>>
          /\ ucdb' = ucdb
          /\ serverPassword' = serverPassword
          /\ IF w[1].res = "ok"
             THEN pc' = "select" /\ reader' = "spawned" /\ retErr' = NoErr
             ELSE pc' = "done"]_vars

\* a keep-alive was answered and the session waits for the next frame
C20_KeepAliveSeen ==
  /\ Returned /\ cur.op = noop /\ cur.pok /\ cur.empty
  /\ Written(trace) = <<"6[0,{}]">>
  /\ pc = "select" /\ reader = "spawned"

\* C21: a displayMessage frame whose messageKind is not passwordError is
\* acknowledged: the device writes exactly one ok frame, does not close or
\* reopen the transport, does not ask for a password, and the session goes
\* on without an error.
C21_OtherMessageAcknowledged ==
  (Returned /\ cur.op = displayMessage /\ cur.pok /\ cur.messageKind # passwordError) =>
    /\ Written(trace) = <<okStr>>
    /\ Events(trace, {"Close", "Connect", "GetPassword"}) = <<>>
    /\ retErr = NoErr

\* the reply a getInitializationInfo frame was answered with, as far as the
\* write was attempted
InitInfoReplies ==
  LET w == Events(trace, {"Write"}) IN [i \in DOMAIN w |-> w[i].arg]

InitInfoHandled == Returned /\ cur.op = getInitializationInfo /\ cur.pok

\* C22: the reply to getInitializationInfo carries the empty passwordHash
\* exactly when the challenge received is empty, otherwise the hash of the
\* stored password followed by the challenge; the stored password is empty
\* as long as no transport was opened after the first one (a password is
\* obtained only on the way to a reconnect), so the first challenged
\* attempt sends the hash of the empty password and the challenge.
C22_PasswordHashFromChallenge ==
  /\ InitInfoHandled =>
       InitInfoReplies =
         <<buildJSONpayload(
             CalibreInitJSON(IF cur.passwordChallenge = ""
                             THEN ""
                             ELSE "sha1(" \o serverPassword \o cur.passwordChallenge \o ")"),
             ok)>>
  /\ (pc # "done" /\ Len(conns) <= 1) => serverPassword = ""
  /\ (InitInfoHandled /\ Len(conns) = 1 /\ cur.passwordChallenge # "") =>
       InitInfoReplies =
         <<buildJSONpayload(CalibreInitJSON("sha1(" \o cur.passwordChallenge \o ")"), ok)>>

\* the first handshake on the first transport was challenged with "abc" and
\* answered with the hash of "abc" alone
C22_FirstChallengeAnswered ==
  /\ InitInfoHandled /\ cur.passwordChallenge = "abc"
  /\ Len(conns) = 1 /\ nread = 1
  /\ Written(trace) = <<buildJSONpayload(CalibreInitJSON("sha1(abc)"), ok)>>

\* the durations the deadline was refreshed with, in order
Deadlines(tr) ==
  LET d == Events(tr, {"SetDeadline"}) IN [i \in DOMAIN d |-> d[i].arg]

\* the duration the handler of cur arms before the call at trace[i], "" when
\* that call is not one a handler arms the alternate duration for
ArmedFor(i) ==
  CASE trace[i].ev = "SaveBook" -> ToString(bookAltDuration(cur.length))
    [] trace[i].ev = "CopyN" -> ToString(bookAltDuration(CHOOSE n \in FileLengths : ToString(n) = trace[i].arg))
    [] trace[i] = Ev("UpdateStatus", "Waiting", "-1") -> ToString(listAltDuration)
    [] OTHER -> ""

\* C25: the alternate deadline is one-shot.  Every handler that arms the
\* alternate duration (before SaveBook, before the file is copied out, after
\* a book list was streamed) refreshes the deadline at once: that refresh
\* uses the armed duration and clears it, so no alternate duration is ever
\* left armed, every refresh after it uses the standard duration, and so
\* does every refresh of a read or write that no arming precedes.  The
\* standard duration is assigned once, in New, and is a constant here.
C25_AlternateDeadlineOneShot ==
  /\ altDuration = 0
  /\ \A i \in DOMAIN trace :
       ArmedFor(i) # "" =>
         /\ i > 1
         /\ trace[i - 1] = Ev("SetDeadline", ArmedFor(i), "")
         /\ \A j \in DOMAIN trace :
              (j > i /\ trace[j].ev = "SetDeadline") => trace[j].arg = ToString(stdDuration)
  /\ \A j \in DOMAIN trace :
       (trace[j].ev = "SetDeadline" /\ trace[j].arg # ToString(stdDuration)) =>
         (j < Len(trace) /\ ArmedFor(j + 1) = trace[j].arg)

\* a file of 204800 bytes went out: the write of the announcement refreshed
\* with the standard 60 s, the refresh after arming with 6 s, and the one
\* after the copy with 60 s again
C25_AlternateThenStandard ==
  /\ Returned /\ cur.op = getBookFileSegment /\ retErr = NoErr
  /\ Deadlines(trace) = <<"60", "6", "60">>

\* a step of the read routine: it starts to run, or it reads and holds its
\* triple ready for the channel
ReaderStep == reader \in {"spawned", "reading"} /\ reader' # reader

\* C31: the read routine does not change session state.  From its spawn to
\* the moment its triple is ready, the alternate duration (the standard one
\* is a constant), the catalog, the stored password, the challenge and the
\* transport handles are what they were; the setTCPDeadline calls of
\* readTCP find no alternate duration armed, so they clear nothing.  The
\* routine hands over one triple, and only once it has read.
C31_ReaderLeavesSession ==
  [][ReaderStep =>
       /\ UNCHANGED <<altDuration, ucdb, serverPassword, calibreInfo, tcpConn, conns,
                      deferConn>>
       /\ (reader' = "reading" => pl' = pl)
       /\ (reader' = "ready" => pl = NoPl /\ nread' = nread + 1)]_vars

\* the read routine of the second frame of a session has its triple ready,
\* having refreshed the deadline twice with the standard duration
C31_ReaderAfterArming ==
  /\ reader = "ready" /\ pl.err = NoErr /\ nread = 2
  /\ Deadlines(trace) = <<"60", "60">>
  /\ altDuration = 0
  /\ length(ucdb) > 0

\* C32: requests are handled one after the other.  A read routine is
\* spawned only when none is outstanding, so there is never more than one;
\* none is outstanding while a handler runs; a handler is entered only from
\* the select, with the triple of the read routine, so the handler before it
\* has returned; and frames are written by handlers alone, so the replies to
\* a request are out before the next request has even been read.
C32_StrictlySerial ==
  [][/\ (reader' = "spawned" /\ reader # "spawned") => reader = "none"
     /\ pc = "handler" => reader = "none"
     /\ (pc' = "handler" /\ pc # "handler") =>
          (pc = "select" /\ reader = "ready" /\ cur' = pl.f)
     /\ Len(Written(trace')) > Len(Written(trace)) =>
          (pc = "handler" /\ pc' # "handler" /\ reader = "none")
     /\ (reader' = "reading" /\ reader = "spawned") => pc # "handler"]_vars

\* the second request of a session has been answered and the read routine
\* for the third is spawned only now
C32_SecondRequestAnswered ==
  /\ Returned /\ nread = 2 /\ retErr = NoErr
  /\ Written(trace) # <<>>
  /\ reader = "spawned"

\* the length the call at trace[i] transfers: cur.length for SaveBook, the
\* file's length for the copy to the transport
TransferLength(i) ==
  IF trace[i].ev = "SaveBook" THEN cur.length
  ELSE CHOOSE n \in FileLengths : ToString(n) = trace[i].arg

\* ceil(a / b) for a >= 0, b > 0
CeilDiv(a, b) == (a + b - 1) \div b

\* C33: the alternate deadline armed by sendBook and by getBookFileSegment
\* for a book of L bytes is max(2, 2 * ceil(L / 102400)) seconds, also for
\* L = 0 and for L an exact multiple of 102400: the refresh just before
\* SaveBook and before the copy of the file uses that duration.
C33_DeadlineIsCeiling ==
  \A i \in DOMAIN trace :
    trace[i].ev \in {"SaveBook", "CopyN"} =>
      /\ i > 1
      /\ trace[i - 1] =
           Ev("SetDeadline",
              ToString(IF 2 * CeilDiv(TransferLength(i), 102400) > 2
                       THEN 2 * CeilDiv(TransferLength(i), 102400)
                       ELSE 2),
              "")

\* C34: in every reachable state the extension of every catalog entry is
\* the dot-prefixed suffix of its lpath after the last '.', and its
\* last_modified is set; so a cached getBookCount reports an entry that
\* sendBook inserted with the extension derived from its lpath.
C34_ExtensionFromLpath ==
  \A i \in DOMAIN ucdb.booklist :
    /\ ucdb.booklist[i].Extension = ClientExt(ucdb.booklist[i].Lpath)
    /\ ucdb.booklist[i].LastModified # ""

\* a noop frame asking for the metadata of count books was handled
BatchHandled == Returned /\ cur.op = noop /\ cur.pok /\ cur.hasCount /\ cur.count > 0

\* the reads of the batch, the keys they carried and the entries they name
BatchReads == Events(trace, {"Read"})
IsKeyRead(e) ==
  e.res = ToString(noop) /\ \E k \in 0..(MaxBooks + 1) : e.arg = "priKey:" \o ToString(k)
KeyOf(e) == CHOOSE k \in 0..(MaxBooks + 1) : e.arg = "priKey:" \o ToString(k)
InCatalog(k) == \E i \in DOMAIN ucdb.booklist : ucdb.booklist[i].PriKey = k
LpathOf(k) == (CHOOSE b \in Range(ucdb.booklist) : b.PriKey = k).Lpath
BatchResolves == \A i \in DOMAIN BatchReads : IsKeyRead(BatchReads[i]) /\ InCatalog(KeyOf(BatchReads[i]))
BatchLpaths == [i \in DOMAIN BatchReads |-> LpathOf(KeyOf(BatchReads[i]))]

\* every write the handler attempted
Attempted(tr) == LET w == Events(tr, {"Write"}) IN [i \in DOMAIN w |-> w[i].arg]

\* C35: on a noop frame with count = n > 0 the device reads at most n
\* further frames and goes on only after n of them, each a noop whose
\* priKey the catalog holds.  Then it asks for the metadata iterator once,
\* with the books of those keys in arrival order, and sends one metadata
\* frame for each book the iterator yields, in that order (a single ok frame
\* when the iterator counts no book).  A frame of the batch that is not a
\* noop, or a priKey that is not in the catalog, ends the session with an
\* error: the iterator is not asked for and nothing is written.
C35_BatchResolvedAndSent ==
  BatchHandled =>
    LET iters == Events(trace, {"GetMetadataIter"})
        gets == Events(trace, {"MetadataIter.Get"})
    IN /\ Len(BatchReads) <= cur.count
       /\ retErr = NoErr /\ pc = "select" => Len(BatchReads) = cur.count /\ BatchResolves
       /\ Len(iters) <= 1
       /\ iters # <<>> =>
            /\ Len(BatchReads) = cur.count /\ BatchResolves
            /\ iters[1].arg = BookIDs(BatchLpaths)
            /\ \/ gets = <<>> /\ Attempted(trace) = <<okStr>>
               \/ /\ gets # <<>>
                  /\ Len(gets) <= cur.count
                  /\ \A i \in DOMAIN gets : gets[i].arg = BatchLpaths[i]
                  /\ Len(Attempted(trace)) <= Len(gets)
                  /\ \A i \in DOMAIN Attempted(trace) :
                       Attempted(trace)[i] = buildJSONpayload(BookMetaJSON(BatchLpaths[i]), ok)
                  /\ (retErr = NoErr /\ pc = "select") =>
                       Len(Written(trace)) = cur.count
       /\ ~BatchResolves =>
            /\ pc = "done" /\ retErr # NoErr
            /\ iters = <<>> /\ gets = <<>> /\ Attempted(trace) = <<>>

\* two keys arrived, the second before the first of the catalog, and the
\* metadata of both books went out in that order
C35_TwoBooksResent ==
  /\ BatchHandled /\ cur.count = 2 /\ retErr = NoErr /\ pc = "select"
  /\ Len(BatchReads) = 2 /\ KeyOf(BatchReads[1]) = 1 /\ KeyOf(BatchReads[2]) = 0
  /\ Written(trace) = <<buildJSONpayload(BookMetaJSON(LpathOf(1)), ok),
                        buildJSONpayload(BookMetaJSON(LpathOf(0)), ok)>>

\* the requests that read or change the catalog
CatalogOps == {getBookCount, sendBook, deleteBook, getBookFileSegment}

\* C38: the session moves through its phases in order, so a request that
\* reads or changes the catalog is handled only in the steady phase, after
\* getInitializationInfo and getDeviceInformation were handled: its frame
\* is at the earliest the third one read in the session.
C38_CatalogRequestsAfterHandshake ==
  (pc = "handler" /\ cur.op \in CatalogOps /\ cur.pok) => nread >= 3

\* C39: a noop frame whose payload holds count = 0 is handled without any
\* effect: nothing is written, no further frame is read, no collaborator
\* is called, catalog, password and deadline stay as they are, and the
\* dispatcher spawns the next read routine.
C39_ZeroCountIgnored ==
  [][(HandlerStep(noop) /\ cur.pok /\ ~cur.empty /\ cur.hasCount /\ cur.count = 0) =>
       /\ trace' = trace
       /\ UNCHANGED <<ucdb, serverPassword, calibreInfo, tcpConn, conns, altDuration,
                      retErr, nread>>
       /\ pc' = "select"
       /\ reader' = "spawned"]_vars

\* a noop with count 0 was handled over a catalog of two books, and the
\* device did nothing for it
C39_ZeroCountSeen ==
  /\ Returned /\ cur.op = noop /\ cur.pok /\ cur.hasCount /\ cur.count = 0
  /\ trace = <<>>
  /\ pc = "select" /\ reader = "spawned"
  /\ length(ucdb) = 2

\* C40: no read routine is left over.  A routine that holds its triple
\* after Start has returned can hand it to nobody (its send on the payload
\* channel has no receiver any more), so termination of every routine
\* requires that this never happens.
C40_NoRoutineLeftBlocked ==
  ~(pc = "done" /\ reader = "ready")

\* ==================================================================== codec
\* Frames on the wire are byte strings; a string of the model is the byte
\* string itself (all bytes used are ASCII).

\* frames in one stream handed to the frame reader
MaxStream == 2
\* elements in the bracketed body of a hand-made frame
MaxElems == 3

\* the byte at position i, "" outside the string
At(s, i) == IF i >= 1 /\ i <= Len(s) THEN SubSeq(s, i, i) ELSE ""

Digits == {"0", "1", "2", "3", "4", "5", "6", "7", "8", "9"}

DigitValue(c) ==
  CASE c = "0" -> 0 [] c = "1" -> 1 [] c = "2" -> 2 [] c = "3" -> 3 [] c = "4" -> 4
    [] c = "5" -> 5 [] c = "6" -> 6 [] c = "7" -> 7 [] c = "8" -> 8 [] c = "9" -> 9

\* the value of the decimal digits s[i..], -1 when a byte is not a digit
RECURSIVE DecimalValue(_, _, _)
DecimalValue(s, i, acc) ==
  IF i > Len(s) THEN acc
  ELSE IF At(s, i) \notin Digits THEN -1
  ELSE DecimalValue(s, i + 1, acc * 10 + DigitValue(At(s, i)))

\* strconv.Atoi: an optional sign, then one or more decimal digits
Atoi(s) ==
  LET signed == At(s, 1) \in {"+", "-"}
      digits == IF signed THEN SubSeq(s, 2, Len(s)) ELSE s
      v == IF digits = "" THEN -1 ELSE DecimalValue(digits, 1, 0)
  IN IF v < 0 THEN [ok |-> FALSE, n |-> 0]
     ELSE [ok |-> TRUE, n |-> IF At(s, 1) = "-" THEN 0 - v ELSE v]

\* bufio.Reader.ReadBytes('['): the position of the first '[' from i on, 0
\* when the stream ends without one
RECURSIVE IndexByte(_, _, _)
IndexByte(s, c, i) ==
  IF i > Len(s) THEN 0
  ELSE IF At(s, i) = c THEN i
  ELSE IndexByte(s, c, i + 1)

\* encoding/json's scanner on the JSON this protocol uses (integers,
\* strings without escapes, null, objects, arrays, no white space): the position
\* just past the value that starts at s[i], 0 when there is no value there
RECURSIVE SkipDigits(_, _)
SkipDigits(s, i) == IF At(s, i) \in Digits THEN SkipDigits(s, i + 1) ELSE i

SkipNumber(s, i) ==
  CASE At(s, i) = "0" -> i + 1
    [] At(s, i) \in Digits \ {"0"} -> SkipDigits(s, i)
    [] OTHER -> 0

RECURSIVE SkipString(_, _)
SkipString(s, i) ==
  IF i > Len(s) THEN 0
  ELSE IF At(s, i) = "\"" THEN i + 1
  ELSE SkipString(s, i + 1)

RECURSIVE SkipValue(_, _)
RECURSIVE SkipElements(_, _)
RECURSIVE SkipMembers(_, _)

SkipValue(s, i) ==
  CASE At(s, i) \in Digits -> SkipNumber(s, i)
    [] At(s, i) = "-" -> SkipNumber(s, i + 1)
    [] At(s, i) = "\"" -> SkipString(s, i + 1)
    [] At(s, i) = "n" -> IF SubSeq(s, i, i + 3) = "null" THEN i + 4 ELSE 0
    [] At(s, i) = "[" -> IF At(s, i + 1) = "]" THEN i + 2 ELSE SkipElements(s, i + 1)
    [] At(s, i) = "{" -> IF At(s, i + 1) = "}" THEN i + 2 ELSE SkipMembers(s, i + 1)
    [] OTHER -> 0

\* value (',' value)* ']'
SkipElements(s, i) ==
  LET e == SkipValue(s, i)
  IN IF e = 0 THEN 0
     ELSE IF At(s, e) = "," THEN SkipElements(s, e + 1)
     ELSE IF At(s, e) = "]" THEN e + 1
     ELSE 0

\* string ':' value (',' string ':' value)* '}'
SkipMembers(s, i) ==
  LET k == IF At(s, i) = "\"" THEN SkipString(s, i + 1) ELSE 0
      e == IF k # 0 /\ At(s, k) = ":" THEN SkipValue(s, k + 1) ELSE 0
  IN IF e = 0 THEN 0
     ELSE IF At(s, e) = "," THEN SkipMembers(s, e + 1)
     ELSE IF At(s, e) = "}" THEN e + 1
     ELSE 0

\* json.Valid
ValidJSON(s) == s # "" /\ SkipValue(s, 1) = Len(s) + 1

\* the elements of a valid JSON array as json.RawMessage, from s[i] on
RECURSIVE RawElements(_, _)
RawElements(s, i) ==
  IF At(s, i) = "]" THEN <<>>
  ELSE LET e == SkipValue(s, i)
       IN <<SubSeq(s, i, e - 1)>>
            \o (IF At(s, e) = "," THEN RawElements(s, e + 1) ELSE <<>>)

\* the zero byte of a buffer that was not filled
NUL == "@"

RECURSIVE Zeroes(_)
Zeroes(n) == IF n <= 0 THEN "" ELSE NUL \o Zeroes(n - 1)

\* decodeCalibrePayload: json.Unmarshal into []json.RawMessage, Atoi of
\* element 0, element 1 as the payload.  Indexing past the end of the slice
\* is a run-time panic.
decodeCalibrePayload(payload) ==
  IF ~(ValidJSON(payload) /\ At(payload, 1) = "[")
  THEN [k |-> "decode", op |-> -1, payload |-> ""]
  ELSE LET calibreDat == RawElements(payload, 2)
       IN IF Len(calibreDat) = 0
          THEN [k |-> "panic", op |-> -1, payload |-> ""]
          ELSE IF ~Atoi(calibreDat[1]).ok
          THEN [k |-> "opcode", op |-> -1, payload |-> ""]
          ELSE IF Len(calibreDat) = 1
          THEN [k |-> "panic", op |-> -1, payload |-> ""]
          ELSE [k |-> "frame", op |-> Atoi(calibreDat[1]).n, payload |-> calibreDat[2]]

\* readTCP then decodeCalibrePayload on the bytes left in the reader: the
\* outcome and the bytes left afterwards.  ReadBytes without a '[' ends in
\* io.EOF; the '[' is unread, so it is the first byte of the payload;
\* make([]byte, sz) panics for a negative sz; the result of io.ReadFull is
\* not looked at, so a short read leaves zero bytes at the end of payload.
readFrame(stream) ==
  LET b == IndexByte(stream, "[", 1)
      sz == Atoi(SubSeq(stream, 1, b - 1))
      from == SubSeq(stream, b, Len(stream))
      got == IF sz.n <= Len(from) THEN sz.n ELSE Len(from)
      payload == SubSeq(from, 1, got) \o Zeroes(sz.n - got)
      rest == SubSeq(from, got + 1, Len(from))
  IN IF b = 0 THEN [k |-> "eof", op |-> -1, payload |-> "", rest |-> ""]
     ELSE IF ~sz.ok THEN [k |-> "badsize", op |-> -1, payload |-> "", rest |-> from]
     ELSE IF sz.n < 0 THEN [k |-> "panic", op |-> -1, payload |-> "", rest |-> from]
     ELSE LET d == decodeCalibrePayload(payload)
          IN [k |-> d.k, op |-> d.op, payload |-> d.payload, rest |-> rest]

\* ---------------------------------------------------- streams for the reader
\* the opcodes and payloads (as json.Marshal writes them) of encoded frames
StreamOps == {ok, sendBook, noop}
StreamPayloads == {"{}", "{\"a\":1}", "{\"a\":\"][\"}", "{\"a\":[1,{\"b\":\"2\"}]}"}

SentFrames ==
  UNION {[1..n -> [op : StreamOps, payload : StreamPayloads]] : n \in 0..MaxStream}

\* the frames written one after the other, nothing in between
RECURSIVE Encoded(_)
Encoded(fs) ==
  IF fs = <<>> THEN ""
  ELSE buildJSONpayload(Head(fs).payload, Head(fs).op) \o Encoded(Tail(fs))

\* hand-made frames: a length prefix of some kind and a bracketed body of
\* up to MaxElems elements
Elements == {"1", "{}", "\"a\""}
NumericElements == {"1"}
ElementSeqs == UNION {[1..n -> Elements] : n \in 0..MaxElems}

RECURSIVE Join(_)
Join(es) ==
  IF es = <<>> THEN ""
  ELSE IF Len(es) = 1 THEN es[1]
  ELSE es[1] \o "," \o Join(Tail(es))

Body(es) == "[" \o Join(es) \o "]"

PrefixKinds == {"exact", "empty", "zero", "negative", "plus", "short", "long"}

\* the prefix of a kind for a body of n bytes
Prefix(kind, n) ==
  CASE kind = "exact" -> ToString(n)
    [] kind = "empty" -> ""
    [] kind = "zero" -> "0"
    [] kind = "negative" -> "-" \o ToString(n)
    [] kind = "plus" -> "+" \o ToString(n)
    [] kind = "short" -> ToString(n - 1)
    [] kind = "long" -> ToString(n + 1)

ReaderCalls ==
  {[fn |-> "frames", sent |-> fs, stream |-> Encoded(fs)] : fs \in SentFrames}
  \cup {[fn |-> "bytes", prefix |-> p, elems |-> es,
          stream |-> Prefix(p, Len(Body(es))) \o Body(es)] :
          p \in PrefixKinds, es \in ElementSeqs}

\* nothing read yet: the whole stream is in the reader
Unread(c) == [done |-> FALSE, frames |-> <<>>, rest |-> c.stream, end |-> ""]

\* ----------------------------------------------------------------- metadata
\* CalibreBookMeta, its map-typed and slice-typed fields in the order of the
\* struct, by their JSON names.  A field is "nil", "empty" (made, no
\* entries) or "set".
BookMetaFields ==
  <<"authors", "languages", "user_metadata", "user_categories", "tags",
    "author_sort_map", "author_link_map", "identifiers">>

MapFields ==
  {"user_metadata", "user_categories", "author_sort_map", "author_link_map", "identifiers"}
SliceFields == {"authors", "languages", "tags"}

FieldStates == {"nil", "empty", "set"}

\* the metadata a client's iterator may return
BookMetas == [Range(BookMetaFields) -> FieldStates]

\* the maps InitMaps makes when they are nil
InitMapsFields ==
  {"user_metadata", "user_categories", "author_sort_map", "author_link_map", "identifiers"}

\* InitMaps: a nil map of those becomes an empty map, everything else stays
InitMaps(m) ==
  [k \in DOMAIN m |-> IF k \in InitMapsFields /\ m[k] = "nil" THEN "empty" ELSE m[k]]

\* json.Marshal of one field: nil maps and nil slices are written as null
MarshalField(k, v) ==
  CASE v = "nil" -> "null"
    [] v = "empty" -> IF k \in MapFields THEN "{}" ELSE "[]"
    [] OTHER -> IF k \in MapFields THEN "{\"k\":\"v\"}" ELSE "[\"v\"]"

\* json.Marshal of the struct: the fields in order, from the i-th on
RECURSIVE MarshalFields(_, _)
MarshalFields(m, i) ==
  LET k == BookMetaFields[i]
      f == "\"" \o k \o "\":" \o MarshalField(k, m[k])
  IN IF i = Len(BookMetaFields) THEN f ELSE f \o "," \o MarshalFields(m, i + 1)

MarshalBookMeta(m) == "{" \o MarshalFields(m, 1) \o "}"

\* the value of member key in the JSON object s, from the member at s[i]
\* on, "" when the object has no such member
RECURSIVE MemberFrom(_, _, _)
MemberFrom(s, key, i) ==
  LET k == SkipString(s, i + 1)
      e == SkipValue(s, k + 1)
  IN IF At(s, i) # "\"" THEN ""
     ELSE IF SubSeq(s, i + 1, k - 2) = key THEN SubSeq(s, k + 1, e - 1)
     ELSE IF At(s, e) = "," THEN MemberFrom(s, key, e + 1)
     ELSE ""

Member(s, key) == MemberFrom(s, key, 2)

MetadataCalls == {[fn |-> "sendMetadata", md |-> m] : m \in BookMetas}

\* ---------------------------------------------------------------- discovery
\* UDP replies one discovery round may receive before its read times out
MaxReplies == 2
\* for i := 0; i < 3; i++ in DiscoverSmartDevice
discoverRounds == 3

\* the part of s from a to b, cut to what s has
Sub(s, a, b) ==
  IF a > Len(s) \/ b < a THEN ""
  ELSE SubSeq(s, IF a < 1 THEN 1 ELSE a, IF b > Len(s) THEN Len(s) ELSE b)

ReplyPrefix == "calibre wireless device client (on "

NoMatch == [ok |-> FALSE, full |-> "", name |-> "", port |-> ""]

\* the pattern `calibre wireless device client \(on ([^\)]+)\);(\d{2,5}),(\d{2,5})`
\* tried at position i of s: the matched text, group 1 and group 3.  The
\* name runs to the first ')'; the first run of digits has to end at the
\* ','; the second group takes up to five digits of the second run.
MatchAt(s, i) ==
  LET n0 == i + Len(ReplyPrefix)
      close == IndexByte(s, ")", n0)
      d1 == SkipDigits(s, close + 2)
      run2 == SkipDigits(s, d1 + 1) - (d1 + 1)
      d2 == d1 + 1 + (IF run2 > 5 THEN 5 ELSE run2)
  IN IF /\ Sub(s, i, n0 - 1) = ReplyPrefix
        /\ close > n0
        /\ At(s, close + 1) = ";"
        /\ d1 - (close + 2) \in 2..5
        /\ At(s, d1) = ","
        /\ run2 >= 2
     THEN [ok |-> TRUE, full |-> Sub(s, i, d2 - 1), name |-> Sub(s, n0, close - 1),
           port |-> Sub(s, d1 + 1, d2 - 1)]
     ELSE NoMatch

\* msgRegex.FindSubmatch: the leftmost match
RECURSIVE FindSubmatchFrom(_, _)
FindSubmatchFrom(s, i) ==
  IF i > Len(s) THEN NoMatch
  ELSE IF MatchAt(s, i).ok THEN MatchAt(s, i)
  ELSE FindSubmatchFrom(s, i + 1)

FindSubmatch(s) == FindSubmatchFrom(s, 1)

\* a datagram: who sent it and, for the text, a shape with a name and two
\* ports; only the shapes "plain" and "padded" hold a text the pattern matches
Hosts == {"10.0.0.1", "10.0.0.2"}
Names == {"pc", "nas"}
ReplyShapes == {"plain", "padded", "noname", "oneport", "shortport", "other"}
MatchingShapes == {"plain", "padded"}
FirstPort == "54982"
SecondPorts == {"9090"}

\* the text Calibre's broadcast responder would send
Plain(name, port) == ReplyPrefix \o name \o ");" \o FirstPort \o "," \o port

ReplyText(shape, name, port) ==
  CASE shape = "plain" -> Plain(name, port)
    [] shape = "padded" -> "> " \o Plain(name, port) \o " <"
    [] shape = "noname" -> Plain("", port)
    [] shape = "oneport" -> ReplyPrefix \o name \o ");" \o FirstPort
    [] shape = "shortport" -> Plain(name, "9")
    [] OTHER -> "hello " \o name

UDPReplies ==
  {[host |-> h, shape |-> sh, name |-> n, port |-> p, text |-> ReplyText(sh, n, p)] :
     h \in Hosts, sh \in ReplyShapes, n \in Names, p \in SecondPorts}

ReplySeqs == UNION {[1..n -> UDPReplies] : n \in 0..MaxReplies}

\* a read loop that keeps every matching datagram
RECURSIVE readReplies_all(_, _, _, _)
readReplies_all(rs, i, ci, replies) ==
  IF i > Len(rs) THEN ci
  ELSE LET match == FindSubmatch(rs[i].text)
       IN IF match.ok
          THEN readReplies_all(rs, i + 1,
                               Append(ci, [Host |-> rs[i].host, Name |-> match.name,
                                           TCPPort |-> Atoi(match.port).n]),
                               replies)
          ELSE readReplies_all(rs, i + 1, ci, replies)

\* the read loop of discoverSmartBCast over the datagrams that arrive
\* before the read deadline: ci and the set of matched texts seen
RECURSIVE readReplies(_, _, _, _)
readReplies(rs, i, ci, replies) ==
  IF i > Len(rs) THEN ci
  ELSE LET match == FindSubmatch(rs[i].text)
       IN IF match.ok /\ match.full \notin replies
          THEN readReplies(rs, i + 1,
                           Append(ci, [Host |-> rs[i].host, Name |-> match.name,
                                       TCPPort |-> Atoi(match.port).n]),
                           replies \cup {match.full})
          ELSE readReplies(rs, i + 1, ci, replies)

\* discoverSmartBCast: a failed WriteTo returns the error at once, otherwise
\* what the read loop collected is returned
discoverSmartBCast(rs, writeErr) ==
  IF writeErr
  THEN [ci |-> <<>>, err |-> Wrap("discoverSmartBCast: wrote 0 of 7 bytes", <<"neterr">>)]
  ELSE [ci |-> readReplies(rs, 1, <<>>, {}), err |-> NoErr]

\* a search that gives up after its first round
DiscoverSmartDevice_once(rounds, i) ==
  LET r == discoverSmartBCast(rounds[i].replies, rounds[i].writeErr)
  IN [ran |-> i, ci |-> r.ci, err |-> r.err]

\* DiscoverSmartDevice over the rounds rounds[i..]: the round that ended
\* the search (0: none did), the list and the error
RECURSIVE DiscoverSmartDevice(_, _)
DiscoverSmartDevice(rounds, i) ==
  IF i > discoverRounds THEN [ran |-> discoverRounds, ci |-> <<>>, err |-> NoErr]
  ELSE LET r == discoverSmartBCast(rounds[i].replies, rounds[i].writeErr)
       IN IF Len(r.ci) > 0 THEN [ran |-> i, ci |-> r.ci, err |-> r.err]
          ELSE IF r.err # NoErr THEN [ran |-> i, ci |-> <<>>, err |-> r.err]
          ELSE DiscoverSmartDevice(rounds, i + 1)

\* what one round of a search may meet
RoundInputs ==
  {[replies |-> rs, writeErr |-> FALSE] :
     rs \in {<<>>} \cup {<<r>> : r \in {u \in UDPReplies :
                                          u.host = "10.0.0.1" /\ u.name = "pc"
                                          /\ u.shape \in {"plain", "other"}}}}
  \cup {[replies |-> <<>>, writeErr |-> TRUE]}

\* New: the client's options, book list and device info, then either the
\* direct connection of the options or the search and the client's choice.
\* clientErr names the client call that fails ("" none), direct is how the
\* options name a server ("" not at all).
New(clientErr, direct, rounds) ==
  CASE clientErr = "options" ->
         [err |-> Wrap("New: Error getting client options", <<"client">>),
          calls |-> <<>>, ran |-> 0]
    [] clientErr = "booklist" ->
         [err |-> Wrap("New: Error getting booklist from device", <<"client">>),
          calls |-> <<>>, ran |-> 0]
    [] clientErr = "info" ->
         [err |-> Wrap("New: Error getting info from device", <<"client">>),
          calls |-> <<>>, ran |-> 0]
    [] direct = "unresolvable" ->
         [err |-> Wrap("New: unable to resolve direct connection host", <<"lookup">>),
          calls |-> <<>>, ran |-> 0]
    [] direct # "" -> [err |-> NoErr, calls |-> <<>>, ran |-> 0]
    [] OTHER ->
         LET d == DiscoverSmartDevice(rounds, 1)
             searching == <<Ev("UpdateStatus", "SearchingCalibre", "-1")>>
         IN IF d.err # NoErr
            THEN [err |-> Wrap("New: error getting calibre instances", d.err),
                  calls |-> searching, ran |-> d.ran]
            ELSE IF Len(d.ci) = 0
            THEN [err |-> Wrap("New: Could not find calibre instance", CalibreNotFound),
                  calls |-> searching, ran |-> d.ran]
            ELSE [err |-> NoErr,
                  calls |-> Append(searching,
                                   Ev("SelectCalibreInstance", ToString(Len(d.ci)), "")),
                  ran |-> d.ran]

DiscoveryCalls ==
  {[fn |-> "discoverSmartBCast", replies |-> rs, writeErr |-> FALSE] : rs \in ReplySeqs}
  \cup {[fn |-> "discoverSmartBCast", replies |-> rs, writeErr |-> TRUE] :
          rs \in {q \in ReplySeqs : Len(q) <= 1}}

NewCalls ==
  {[fn |-> "New", clientErr |-> e, direct |-> "", rounds |-> <<>>] :
     e \in {"options", "booklist", "info"}}
  \cup {[fn |-> "New", clientErr |-> "", direct |-> d, rounds |-> <<>>] :
          d \in {"ip", "name", "unresolvable"}}
  \cup {[fn |-> "New", clientErr |-> "", direct |-> "", rounds |-> rs] :
          rs \in [1..discoverRounds -> RoundInputs]}

\* ----------------------------------------------------------- custom columns
\* the largest rating handed to the formatter
MaxRating == 12

\* the characters of a rating: "*" is U+2605 (black star), "h" is U+00BD
\* (vulgar fraction one half)
Star == "*"
HalfSign == "h"

\* strings.Repeat
RECURSIVE Repeat(_, _)
Repeat(s, n) == IF n <= 0 THEN "" ELSE s \o Repeat(s, n - 1)

\* a formatter without the clamp at ten
formatRating_unclamped(rating, allowHalf) ==
  Repeat(Star, rating \div 2)
    \o (IF rating % 2 > 0 /\ allowHalf THEN HalfSign ELSE "")

\* formatRating
formatRating(rating, allowHalf) ==
  IF rating > 10 THEN Repeat(Star, 5)
  ELSE LET quot == rating \div 2
           rem == rating % 2
           stars == Repeat(Star, quot)
       IN IF rem > 0 /\ allowHalf THEN stars \o HalfSign ELSE stars

\* CalCustomColDataType.KnownType
KnownTypes ==
  {"int", "series", "bool", "text", "composite", "rating", "comments", "enumeration",
   "datetime", "float"}

\* the #value# of a column as encoding/json decodes it into interface{}:
\* nil, a bool, a float64 (whole numbers here), a string or, for a text
\* column with is_multiple, a []string
NullValue == [t |-> "nil"]
BoolValues == {[t |-> "bool", v |-> b] : b \in BOOLEAN}
NumberValues == {[t |-> "number", v |-> n] : n \in 0..MaxRating}
StringValues == {[t |-> "string", v |-> s] : s \in {"", "series", "*Testing*"}}
ListValues == {[t |-> "strings", v |-> l] : l \in {<<>>, <<"a">>, <<"a", "b">>}}

\* the columns of the model: a value of the type the datatype stores, or
\* nil; a datetime holds a string that is not a time; "custom" is a
\* datatype KnownType does not list
Columns ==
  {[datatype |-> d, value |-> v, isMultiple |-> FALSE] :
     d \in {"bool"}, v \in BoolValues \cup {NullValue}}
  \cup {[datatype |-> d, value |-> v, isMultiple |-> FALSE] :
          d \in {"int", "rating", "float"}, v \in NumberValues \cup {NullValue}}
  \cup {[datatype |-> d, value |-> v, isMultiple |-> FALSE] :
          d \in {"text", "comments", "series", "enumeration", "datetime", "composite",
                 "custom"},
          v \in StringValues \cup {NullValue}}
  \cup {[datatype |-> "text", value |-> v, isMultiple |-> TRUE] :
          v \in ListValues \cup {NullValue}}

\* strings.Join(v, ",")
RECURSIVE JoinStrings(_)
JoinStrings(l) ==
  IF l = <<>> THEN ""
  ELSE IF Len(l) = 1 THEN l[1]
  ELSE l[1] \o "," \o JoinStrings(Tail(l))

\* CalibreCustomColumn.String: the case "bool" calls strconv.FormatBool and
\* drops what it returns, so control reaches the return "" after the switch
String(u) ==
  IF u.value = NullValue \/ u.datatype \notin KnownTypes THEN ""
  ELSE CASE u.datatype = "text" ->
              IF u.isMultiple
              THEN (IF u.value.t = "strings" THEN JoinStrings(u.value.v) ELSE "")
              ELSE u.value.v
         [] u.datatype \in {"comments", "series", "enumeration", "datetime", "composite"} ->
              u.value.v
         [] u.datatype = "float" -> ToString(u.value.v)
         [] u.datatype \in {"int", "rating"} -> ToString(u.value.v)
         [] OTHER -> ""

\* CalibreCustomColumn.ContextualString for a column without display hints
\* (numbers are formatted as String does) and a datetime that does not
\* parse (the value itself is returned)
ContextualString(u) ==
  IF u.value = NullValue \/ u.datatype \notin KnownTypes THEN ""
  ELSE CASE u.datatype \in {"bool", "text", "comments", "series", "enumeration",
                            "composite"} -> String(u)
         [] u.datatype \in {"int", "float"} -> ToString(u.value.v)
         [] u.datatype = "rating" -> formatRating(u.value.v, TRUE)
         [] u.datatype = "datetime" -> u.value.v
         [] OTHER -> ""

ColumnCalls ==
  {[fn |-> f, col |-> u] : f \in {"String", "ContextualString"}, u \in Columns}
  \cup {[fn |-> "formatRating", rating |-> r, allowHalf |-> h] :
          r \in 0..MaxRating, h \in BOOLEAN}

\* ------------------------------------------- library functions on their own
\* no session runs
session ==
  <<ucdb, serverPassword, calibreInfo, tcpConn, conns, deferConn, altDuration,
    trace, pc, cur, reader, pl, exitRaised, retErr, nread>>

NoSession ==
  /\ ucdb = EmptyDB
  /\ serverPassword = ""
  /\ calibreInfo = ""
  /\ tcpConn = 0
  /\ conns = <<>>
  /\ deferConn = 0
  /\ altDuration = 0
  /\ trace = <<>>
  /\ pc = "none"
  /\ cur = NoFrame
  /\ reader = "none"
  /\ pl = NoPl
  /\ exitRaised = FALSE
  /\ retErr = NoErr
  /\ nread = 0

\* one readDecodeCalibrePayload on the stream: a frame is kept and the
\* reader goes on, anything else ends the reading
ReadFrame ==
  /\ call.fn \in {"frames", "bytes"}
  /\ ~result.done
  /\ \E r \in {readFrame(result.rest)} :
       result' = [done |-> r.k # "frame",
                  frames |-> IF r.k = "frame"
                             THEN Append(result.frames, [op |-> r.op, payload |-> r.payload])
                             ELSE result.frames,
                  rest |-> r.rest,
                  end |-> IF r.k = "frame" THEN "" ELSE r.k]
  /\ UNCHANGED <<call, session, round>>

\* md, err := mdIter.Get(); md.InitMaps(); payload := buildJSONpayload(md, ok):
\* the frame getBookCount and resendMetadataList write for one book
SendMetadata ==
  /\ call.fn = "sendMetadata"
  /\ ~result.done
  /\ result' = [done |-> TRUE,
                payload |-> buildJSONpayload(MarshalBookMeta(InitMaps(call.md)), ok)]
  /\ UNCHANGED <<call, session, round>>

\* one round of the search
DiscoverRound ==
  /\ call.fn = "discoverSmartBCast"
  /\ ~result.done
  /\ \E r \in {discoverSmartBCast(call.replies, call.writeErr)} :
       result' = [done |-> TRUE, ci |-> r.ci, err |-> r.err]
  /\ UNCHANGED <<call, session, round>>

\* New, with the search of up to three rounds inside it
NewConn ==
  /\ call.fn = "New"
  /\ ~result.done
  /\ \E r \in {New(call.clientErr, call.direct, call.rounds)} :
       result' = [done |-> TRUE, err |-> r.err, calls |-> r.calls, ran |-> r.ran]
  /\ UNCHANGED <<call, session, round>>

\* the two string forms of a custom column
FormatColumn ==
  /\ call.fn \in {"String", "ContextualString"}
  /\ ~result.done
  /\ result' = [done |-> TRUE,
                str |-> IF call.fn = "String"
                        THEN String(call.col)
                        ELSE ContextualString(call.col)]
  /\ UNCHANGED <<call, session, round>>

FormatRating ==
  /\ call.fn = "formatRating"
  /\ ~result.done
  /\ result' = [done |-> TRUE, str |-> formatRating(call.rating, call.allowHalf)]
  /\ UNCHANGED <<call, session, round>>

\* nothing returned yet
Pending == [done |-> FALSE]

LibInit ==
  /\ NoSession
  /\ call \in ReaderCalls \cup MetadataCalls \cup DiscoveryCalls \cup NewCalls
              \cup ColumnCalls
  /\ result = IF call \in ReaderCalls THEN Unread(call) ELSE Pending
  /\ round = NoRound

LibNext ==
  \/ ReadFrame
  \/ SendMetadata
  \/ DiscoverRound
  \/ NewConn
  \/ FormatColumn
  \/ FormatRating

LibSpec == LibInit /\ [][LibNext]_vars

\* the frame of a "bytes" call is malformed in the claim's sense: the prefix
\* is not a positive decimal integer, the body has not exactly two
\* elements, or the first element is not a number
Malformed(c) ==
  \/ c.prefix \in {"empty", "zero", "negative", "plus"}
  \/ Len(c.elems) # 2
  \/ c.elems[1] \notin NumericElements

\* C23: decoding a frame whose length prefix is not a positive decimal
\* integer (empty, zero, negative, signed), whose body is not an array of
\* exactly two elements, or whose first element is not a numeric opcode,
\* ends in a decoding error: no frame is accepted and the reader does not
\* crash.
C23_MalformedFrameRejected ==
  (call.fn = "bytes" /\ result.done /\ Malformed(call)) =>
    (result.frames = <<>> /\ result.end \in {"badsize", "decode", "opcode"})

\* C24: the frame codec round-trips over streams.  The encodings of N
\* (opcode, payload) pairs written one after the other are read back by N
\* reads as those pairs in that order: at any moment the frames read are
\* the first ones sent and the bytes left are the encodings of the others,
\* and the read after the last frame finds the end of the stream.  Each
\* encoding is the decimal byte length of its bracketed body followed by the
\* body, and the ok frame kept in okStr is the encoding of opcode 0 with
\* the empty object.
C24_StreamRoundTrip ==
  /\ call.fn = "frames" =>
       /\ Len(result.frames) <= Len(call.sent)
       /\ result.frames = SubSeq(call.sent, 1, Len(result.frames))
       /\ result.rest = Encoded(SubSeq(call.sent, Len(result.frames) + 1, Len(call.sent)))
       /\ result.done => (result.frames = call.sent /\ result.end = "eof")
       /\ \A i \in DOMAIN call.sent :
            LET e == buildJSONpayload(call.sent[i].payload, call.sent[i].op)
                b == IndexByte(e, "[", 1)
            IN /\ b > 1
               /\ Atoi(SubSeq(e, 1, b - 1)) = [ok |-> TRUE, n |-> Len(e) - (b - 1)]
               /\ SubSeq(e, b, Len(e)) =
                    "[" \o ToString(call.sent[i].op) \o "," \o call.sent[i].payload \o "]"
  /\ buildJSONpayload("{}", ok) = okStr

\* two frames were read back, the first a sendBook whose payload holds
\* brackets inside a string, the second a noop, and the stream is used up
C24_TwoFramesReadBack ==
  /\ call.fn = "frames" /\ result.done
  /\ result.frames = <<[op |-> sendBook, payload |-> "{\"a\":\"][\"}"],
                       [op |-> noop, payload |-> "{}"]>>
  /\ call.stream = "14[8,{\"a\":\"][\"}]" \o "7[12,{}]"
  /\ result.rest = ""

\* the metadata object inside the frame that was written
SentMetadata == readFrame(result.payload).payload

\* C26: in every metadata object the device transmits, no mapping-valued or
\* sequence-valued field is null: an empty mapping (user_metadata,
\* user_categories, author_sort_map, author_link_map, identifiers) is {} and
\* an empty sequence (authors, tags, languages) is [].
C26_NoNullCollections ==
  (call.fn = "sendMetadata" /\ result.done) =>
    \A k \in MapFields \cup SliceFields :
      /\ Member(SentMetadata, k) # "null"
      /\ call.md[k] # "set" =>
           Member(SentMetadata, k) = (IF k \in MapFields THEN "{}" ELSE "[]")

\* the replies of the round whose text the pattern matches, by construction
\* of the text
Matching(i) == call.replies[i].shape \in MatchingShapes

\* the matched text of such a reply: the plain text, whatever surrounds it
MatchedText(i) == Plain(call.replies[i].name, call.replies[i].port)

\* the reply with which a matched text arrived for the first time
FirstArrival(i) ==
  Matching(i) /\ \A j \in 1..(i - 1) : Matching(j) => MatchedText(j) # MatchedText(i)

FirstArrivals == SelectSeq([i \in DOMAIN call.replies |-> i], FirstArrival)

\* C27: within one discovery round, whatever replies arrive, a reply that
\* matches the pattern contributes one entry when its matched text arrives
\* for the first time and none when it arrives again, a reply that does not
\* match contributes none, the entries are in order of first arrival, and
\* each carries the sender's host, the name and, as TCP port, the second
\* port number of the reply.
C27_OneEntryPerMatchedReply ==
  (call.fn = "discoverSmartBCast" /\ result.done /\ ~call.writeErr) =>
    /\ result.err = NoErr
    /\ Len(result.ci) = Len(FirstArrivals)
    /\ \A k \in DOMAIN result.ci :
         result.ci[k] = [Host |-> call.replies[FirstArrivals[k]].host,
                         Name |-> call.replies[FirstArrivals[k]].name,
                         TCPPort |-> 9090]

\* the same text arrived from two hosts, once alone and once inside a longer
\* datagram: one entry, for the host that was first
C27_DuplicateDropped ==
  /\ call.fn = "discoverSmartBCast" /\ result.done
  /\ Len(call.replies) = 2
  /\ call.replies[1].shape = "padded" /\ call.replies[2].shape = "plain"
  /\ call.replies[1].host = "10.0.0.2" /\ call.replies[2].host = "10.0.0.1"
  /\ call.replies[1].name = call.replies[2].name
  /\ result.ci = <<[Host |-> "10.0.0.2", Name |-> "nas", TCPPort |-> 9090]>>

\* C28: the search runs at most three rounds and stops at the first round
\* that returns a list with entries or an error; when all three rounds
\* return empty lists, New fails with an error that is CalibreNotFound and
\* the client's SelectCalibreInstance is not called.
C28_ThreeRoundsThenNotFound ==
  (call.fn = "New" /\ result.done /\ call.clientErr = "" /\ call.direct = "") =>
    LET ends(i) == \/ call.rounds[i].writeErr
                   \/ \E j \in DOMAIN call.rounds[i].replies :
                        call.rounds[i].replies[j].shape \in MatchingShapes
        selected == \E i \in DOMAIN result.calls :
                      result.calls[i].ev = "SelectCalibreInstance"
    IN /\ result.ran \in 1..3
       /\ \A i \in 1..(result.ran - 1) : ~ends(i)
       /\ result.ran < 3 => ends(result.ran)
       /\ (\A i \in 1..3 : ~ends(i)) =>
            (Is(result.err, CalibreNotFound) /\ ~selected)
       /\ selected <=> result.err = NoErr

\* three rounds were run, the second met only a datagram that is not
\* Calibre's, and New failed with CalibreNotFound
C28_NotFoundAfterThree ==
  /\ call.fn = "New" /\ result.done
  /\ result.ran = 3
  /\ Len(call.rounds[2].replies) = 1
  /\ result.err = Wrap("New: Could not find calibre instance", CalibreNotFound)

\* C29: for a bool custom column with a non-null value, String and
\* ContextualString both return "true" or "false" as the value is; they
\* return the empty string only when the value is null.
C29_BoolColumnText ==
  (call.fn \in {"String", "ContextualString"} /\ result.done
   /\ call.col.datatype = "bool") =>
    result.str = (IF call.col.value = NullValue THEN "" ELSE Bool(call.col.value.v))

\* C30: the rating formatter gives, for a rating r in 0..10, r div 2 stars
\* and then one half sign exactly when r is odd and half stars are allowed,
\* and five stars for every r above 10; so 0 gives the empty string, 7 with
\* half stars three stars and a half, and 10 five stars.
C30_RatingStars ==
  /\ (call.fn = "formatRating" /\ result.done) =>
       LET r == call.rating
           half == r % 2 = 1 /\ call.allowHalf
           n == Len(result.str)
       IN IF r > 10
          THEN result.str = "*****"
          ELSE /\ n = (r \div 2) + (IF half THEN 1 ELSE 0)
               /\ \A i \in 1..(r \div 2) : At(result.str, i) = Star
               /\ half => At(result.str, n) = HalfSign
  /\ formatRating(0, TRUE) = "" /\ formatRating(0, FALSE) = ""
  /\ formatRating(7, TRUE) = "***h"
  /\ formatRating(10, TRUE) = "*****" /\ formatRating(10, FALSE) = "*****"

\* the formatter was given 7 with half stars allowed and has returned three
\* stars and a half sign
C30_SevenWithHalf ==
  /\ call.fn = "formatRating" /\ result.done
  /\ call.rating = 7 /\ call.allowHalf
  /\ result.str = "***h"

\* ------------------------------------------ one discovery round, step by step
\* discoverSmartBCast as its two routines run: the caller opens the socket,
\* starts the reader and broadcasts; the reader collects replies until its
\* read deadline; the caller then takes the list off the channel.

\* bcastPorts, and the times the caller goes through them
bcastPorts == <<54982, 48123, 39001, 44044, 59678>>
broadcastTries == 3
\* failed reads (other than timeouts) one round may meet
MaxReadErrors == 2

\* the datagrams a round may receive
RoundReplies ==
  {u \in UDPReplies :
     u.host = "10.0.0.1" /\ u.name = "pc" /\ u.shape \in {"plain", "padded", "other"}}

\* a check that takes no error for a timeout
timeoutReached_never(err) == FALSE

\* timeoutReached: errors.As(err, &terr) && terr.Timeout()
timeoutReached(err) == err = "timeout"

RoundStart ==
  [pc |-> "listen", sock |-> "none", rd |-> "none", expired |-> FALSE, i |-> 0, p |-> 1,
   ci |-> <<>>, replies |-> {}, nerr |-> 0, ndat |-> 0, ret |-> [ci |-> <<>>, err |-> NoErr]]

\* pc, err := net.ListenPacket("udp", "0.0.0.0:0"); go func() {...}():
\* without a socket the round returns at once, with one the reader starts
ListenPacket ==
  /\ round.pc = "listen"
  /\ \/ round' = [round EXCEPT !.pc = "returned",
                               !.ret = [ci |-> <<>>,
                                        err |-> Wrap("discoverBCast: error opening PacketConn",
                                                     <<"neterr">>)]]
     \/ round' = [round EXCEPT !.pc = "write", !.sock = "open", !.rd = "reading"]
  /\ UNCHANGED <<call, result, session>>

\* the 1000 ms of pc.SetReadDeadline pass
DeadlinePasses ==
  /\ round.sock = "open"
  /\ ~round.expired
  /\ round' = [round EXCEPT !.expired = TRUE]
  /\ UNCHANGED <<call, result, session>>

\* what pc.ReadFrom may return before the read deadline: a datagram, or an
\* error that is no timeout
ReadResults ==
  {[err |-> "", dgram |-> <<u>>] : u \in IF round.ndat < MaxReplies THEN RoundReplies ELSE {}}
  \cup (IF round.nerr < MaxReadErrors THEN {[err |-> "neterr", dgram |-> <<>>]} ELSE {})

\* one turn of the reader's loop on read result r: a datagram is matched
\* and kept, and the loop is left only when the read timed out
readerTurn(r) ==
  [round EXCEPT
     !.ci = readReplies(r.dgram, 1, round.ci, round.replies),
     !.replies = @ \cup {FindSubmatch(u.text).full :
                           u \in {v \in Range(r.dgram) : FindSubmatch(v.text).ok}},
     !.ndat = @ + Len(r.dgram),
     !.nerr = IF r.err = "neterr" THEN @ + 1 ELSE @,
     !.rd = IF timeoutReached(r.err) THEN "sending" ELSE "reading"]

\* a read that returns before the deadline
ReadFrom ==
  /\ round.rd = "reading"
  /\ ~round.expired
  /\ \E r \in ReadResults : round' = readerTurn(r)
  /\ UNCHANGED <<call, result, session>>

\* a read past the deadline: it returns a timeout at once
ReadTimeout ==
  /\ round.rd = "reading"
  /\ round.expired
  /\ round' = readerTurn([err |-> "timeout", dgram |-> <<>>])
  /\ UNCHANGED <<call, result, session>>

\* one pc.WriteTo of the broadcast loop: a timed out write is skipped, any
\* other failure returns the error, and after the last write the caller
\* waits for the reader's list
WriteTo ==
  /\ round.pc = "write"
  /\ \E o \in {"ok", "timeout", "neterr"} :
       IF o = "neterr"
       THEN round' = [round EXCEPT !.pc = "returned",
                                   !.ret = [ci |-> <<>>,
                                            err |-> Wrap("discoverSmartBCast: wrote 0 of 7 bytes",
                                                         <<"neterr">>)]]
       ELSE round' = [round EXCEPT
                        !.p = IF round.p = Len(bcastPorts) THEN 1 ELSE @ + 1,
                        !.i = IF round.p = Len(bcastPorts) THEN @ + 1 ELSE @,
                        !.pc = IF round.p = Len(bcastPorts) /\ round.i + 1 = broadcastTries
                               THEN "wait" ELSE "write"]
  /\ UNCHANGED <<call, result, session>>

\* return <-instances, nil meets instances <- ci; close(instances)
ReceiveInstances ==
  /\ round.pc = "wait"
  /\ round.rd = "sending"
  /\ round' = [round EXCEPT !.pc = "returned", !.rd = "done",
                            !.ret = [ci |-> round.ci, err |-> NoErr]]
  /\ UNCHANGED <<call, result, session>>

RoundInit ==
  /\ NoSession
  /\ call = NoCall
  /\ result = NoResult
  /\ round = RoundStart

RoundNext ==
  \/ ListenPacket
  \/ DeadlinePasses
  \/ ReadFrom
  \/ ReadTimeout
  \/ WriteTo
  \/ ReceiveInstances

\* both routines run when they can and time passes; whether a datagram
\* arrives is up to the network
RoundSpec ==
  /\ RoundInit
  /\ [][RoundNext]_vars
  /\ WF_vars(ListenPacket)
  /\ WF_vars(DeadlinePasses)
  /\ WF_vars(ReadTimeout)
  /\ WF_vars(WriteTo)
  /\ WF_vars(ReceiveInstances)

\* C36: the UDP socket a discovery round opened is closed when the round
\* returns, after the read deadline as well as after a write error.
C36_SocketClosedOnReturn ==
  round.pc = "returned" => round.sock # "open"

\* C37: every discovery round returns.  The reader leaves its loop once
\* the read deadline has passed, whatever it read before, failed reads that
\* are no timeouts included, and a caller that waits for the reader's list
\* gets it.
C37_RoundTerminates ==
  /\ <>(round.pc = "returned")
  /\ [](round.rd = "reading" => <>(round.rd # "reading"))
  /\ [](round.pc = "wait" => <>(round.pc = "returned" /\ round.ret.err = NoErr))

\* a round returned its list although reads had failed without timing out
C37_ReturnedAfterReadErrors ==
  /\ round.pc = "returned" /\ round.ret.err = NoErr
  /\ round.nerr = MaxReadErrors
  /\ Len(round.ret.ci) = 1

====
